---- MODULE Spec2Model ----
(***************************************************************************)
(* A model of the RoyalUr rules engine (royalur/model, royalur/rules,      *)
(* royalur/game.py): tiles, paths and board shapes, the board as a mutable *)
(* heap object, the SimpleRuleSet and the Game with its list of states.    *)
(***************************************************************************)
EXTENDS Integers, Sequences, FiniteSets, TLC

VARIABLES
    rules,    \* Game._rules: the settings the SimpleRuleSet was created with
    boards,   \* the Board objects alive on the heap: object id -> Board._pieces
    states,   \* Game._states (see whole)
    whole,    \* TRUE: states is all of Game._states; FALSE: states is its tail,
              \* the states added by the last call (all that the calls read)
    raised,   \* the exception the last call raised, or None
    returned, \* the Roll the last call returned, or None
    copy_states, \* Game._states of the game that Game.copy made of this
                 \* one, or the empty list before there is a copy
    produced, \* generate_states: how many times the walk of the board that
              \* produce_states is in has reached the end of the board
    my_queue, \* generate_states.my_queue: the items put and not yet taken
    walks,    \* produce_states: the (light_pieces, dark_pieces) that its two
              \* loops have still to walk the board for, the current one first
    pc,       \* loop_light_game_states: where produce_thread and
              \* consume_thread are
    consumed_count, \* consume_states.consumed_count
    game_buffer,    \* consume_states.game_buffer: its lines, without the
                    \* places that hold None
    files,    \* the files game_states_<n>.txt: n -> the text written to it
    binary_contents, \* LutReader.read: the bytes of the file at _file_path
    lut,      \* the Lut that LutReader.read returned, or None
    looked_up, \* the last call of Lut.lookup: its arguments and the places
               \* of the keys that its search read, or None
    evaluated, \* LutAgent.play: what the last call did for each move before
               \* it returned or raised
    viewed,    \* the last call of Lut.keys_as_numpy, values_as_numpy or
               \* __len__: its name, its arguments and its result, or None
    dice,      \* the Dice that DiceType.create_dice made: its class and
               \* its attributes
    dice_calls \* the calls of dice.roll and dice.get_max_roll_value so far:
               \* what each was given and what it returned or raised

enumerator_vars == <<produced, my_queue, walks, pc, consumed_count, game_buffer, files>>

lut_vars == <<binary_contents, lut, looked_up, evaluated, viewed>>

dice_vars == <<dice, dice_calls>>

vars == <<rules, boards, states, whole, raised, returned, copy_states, enumerator_vars, lut_vars, dice_vars>>

----------------------------------------------------------------------------
\* Bounds of the model.

\* starting_piece_count of the games of SpecPairs.
MaxPieces == 2

\* The most pieces on a board that find_available_moves is given in
\* SpecMoves, and the largest reserve of its player states.
MaxPlaced == 2

MaxReserve == 1

\* The longest list of states a game whose whole history is kept may hold.
MaxStates == 15

\* The same for a game and its copy in SpecCopy.
MaxCopyStates == 7

\* The most pieces on the board of a state that is encoded in SpecEncode.
MaxEncoded == 2

\* The largest score that produce_states starts a walk of the board with in
\* SpecEnumerate: the most pieces of a player the walk puts on the board.
MaxScore == 1

\* The most items my_queue holds in SpecEnumerate.
MaxQueue == 2

\* How many times the model follows a walk of the board to the end of the
\* board.
MaxReached == 220

\* BUFFER_SIZE of consume_states, which is 1000000 there: the model takes
\* a size that the walks it follows fill more than once.
BUFFER_SIZE == 3

----------------------------------------------------------------------------
\* Python values.

\* Python's None, for an absent piece or tile.
None == [none |-> TRUE]

\* No thread of generate_states runs and no file has been read.
NotEnumerating ==
    /\ produced = 0
    /\ my_queue = <<>>
    /\ walks = <<>>
    /\ pc = None
    /\ consumed_count = 0
    /\ game_buffer = <<>>
    /\ files = <<>>

\* No dice has been created apart from the game's.
NoDice == dice = None /\ dice_calls = <<>>

NoLut ==
    /\ binary_contents = <<>>
    /\ lut = None
    /\ looked_up = None
    /\ evaluated = <<>>
    /\ viewed = None

Abs(n) == IF n < 0 THEN -n ELSE n

Max(S) == CHOOSE m \in S : \A n \in S : n <= m

Range(seq) == {seq[i] : i \in 1..Len(seq)}

\* Python's seq[1:-1].
StripEnds(seq) == SubSeq(seq, 2, Len(seq) - 1)

----------------------------------------------------------------------------
\* royalur/model/player.py

LIGHT == "Light"

DARK == "Dark"

PlayerTypes == {LIGHT, DARK}

get_other_player(player) == IF player = LIGHT THEN DARK ELSE LIGHT

\* PlayerState(player, piece_count, score); the constructor raises on a
\* negative piece_count or score, which the model reports as ValueError.
ValueError == [raised |-> "ValueError"]

IndexError == [raised |-> "IndexError"]

PlayerState(player, piece_count, score) ==
    IF piece_count < 0 \/ score < 0
    THEN ValueError
    ELSE [player |-> player, piece_count |-> piece_count, score |-> score]

----------------------------------------------------------------------------
\* royalur/model/tile.py

\* A tile holds its 1-based coordinates x and y.
Tile(x, y) == [x |-> x, y |-> y]

\* Tile.ix, Tile.iy: the 0-based indices.
TileIx(tile) == tile.x - 1

TileIy(tile) == tile.y - 1

step_towards(self, other) ==
    LET dx == other.x - self.x
        dy == other.y - self.y
    IN  IF Abs(dx) + Abs(dy) <= 1 THEN other
        ELSE IF Abs(dx) < Abs(dy)
             THEN Tile(self.x, self.y + (IF dy > 0 THEN 1 ELSE -1))
             ELSE Tile(self.x + (IF dx > 0 THEN 1 ELSE -1), self.y)

\* The inner loop of create_path: the tiles stepped through from current
\* (excluded) to next (included).
RECURSIVE WalkTo(_, _)
WalkTo(current, next) ==
    IF current = next THEN <<>>
    ELSE LET stepped == step_towards(current, next)
         IN  <<stepped>> \o WalkTo(stepped, next)

RECURSIVE PathFrom(_, _)
PathFrom(waypoints, index) ==
    IF index > Len(waypoints) THEN <<>>
    ELSE WalkTo(waypoints[index - 1], waypoints[index])
         \o PathFrom(waypoints, index + 1)

create_path(waypoints) == <<waypoints[1]>> \o PathFrom(waypoints, 2)

ColumnLetters == <<"A", "B", "C">>

\* Tile.__repr__: the column letter followed by y.
TileRepr(tile) == ColumnLetters[tile.x] \o ToString(tile.y)

----------------------------------------------------------------------------
\* royalur/model/path.py

BELL_LIGHT_PATH ==
    create_path(<<Tile(1, 5), Tile(1, 1), Tile(2, 1), Tile(2, 8), Tile(1, 8),
                  Tile(1, 6)>>)

BELL_DARK_PATH ==
    create_path(<<Tile(3, 5), Tile(3, 1), Tile(2, 1), Tile(2, 8), Tile(3, 8),
                  Tile(3, 6)>>)

ASEB_LIGHT_PATH ==
    create_path(<<Tile(1, 5), Tile(1, 1), Tile(2, 1), Tile(2, 12), Tile(1, 12)>>)

ASEB_DARK_PATH ==
    create_path(<<Tile(3, 5), Tile(3, 1), Tile(2, 1), Tile(2, 12), Tile(3, 12)>>)

MASTERS_LIGHT_PATH ==
    create_path(<<Tile(1, 5), Tile(1, 1), Tile(2, 1), Tile(2, 7), Tile(3, 7),
                  Tile(3, 8), Tile(1, 8), Tile(1, 6)>>)

MASTERS_DARK_PATH ==
    create_path(<<Tile(3, 5), Tile(3, 1), Tile(2, 1), Tile(2, 7), Tile(1, 7),
                  Tile(1, 8), Tile(3, 8), Tile(3, 6)>>)

\* PathPair.__init__: the paths with and without their off-board ends.
PathPair(name, lightWithStartEnd, darkWithStartEnd) ==
    [name |-> name,
     light_with_ends |-> lightWithStartEnd,
     dark_with_ends |-> darkWithStartEnd,
     light |-> StripEnds(lightWithStartEnd),
     dark |-> StripEnds(darkWithStartEnd)]

\* A Bell pair in which Dark walks Light's path.
BellPathPairOnOneSide == PathPair("Bell", BELL_LIGHT_PATH, BELL_LIGHT_PATH)

BellPathPair == PathPair("Bell", BELL_LIGHT_PATH, BELL_DARK_PATH)

AsebPathPair == PathPair("Aseb", ASEB_LIGHT_PATH, ASEB_DARK_PATH)

MastersPathPair == PathPair("Masters", MASTERS_LIGHT_PATH, MASTERS_DARK_PATH)

\* PathPair.get
PathGet(paths, player) == IF player = LIGHT THEN paths.light ELSE paths.dark

----------------------------------------------------------------------------
\* royalur/model/shape.py

BoardShape(name, tiles, rosettes) ==
    [name |-> name, tiles |-> tiles, rosettes |-> rosettes,
     width |-> Max({t.x : t \in tiles}),
     height |-> Max({t.y : t \in tiles})]

StandardBoardShape ==
    BoardShape("Standard",
               Range(StripEnds(BELL_LIGHT_PATH)) \cup Range(StripEnds(BELL_DARK_PATH)),
               {Tile(1, 1), Tile(3, 1), Tile(2, 4), Tile(1, 7), Tile(3, 7)})

AsebBoardShape ==
    BoardShape("Aseb",
               Range(StripEnds(ASEB_LIGHT_PATH)) \cup Range(StripEnds(ASEB_DARK_PATH)),
               {Tile(1, 1), Tile(3, 1), Tile(2, 4), Tile(2, 8), Tile(2, 12)})

ShapeContains(shape, tile) == tile \in shape.tiles

is_rosette(shape, tile) == tile \in shape.rosettes

----------------------------------------------------------------------------
\* royalur/model/settings.py, royalur/model/dice.py
\*
\* Settings name their board shape and paths (BoardType, PathType); the
\* shape and the paths themselves are looked up by name.

GameSettings(board_shape, paths, num_die, starting_piece_count, safe_rosettes, rosettes_grant_extra_rolls, captures_grant_extra_rolls) ==
    IF starting_piece_count < 1
    THEN ValueError
    ELSE [board_shape |-> board_shape, paths |-> paths, num_die |-> num_die,
          starting_piece_count |-> starting_piece_count,
          safe_rosettes |-> safe_rosettes,
          rosettes_grant_extra_rolls |-> rosettes_grant_extra_rolls,
          captures_grant_extra_rolls |-> captures_grant_extra_rolls]

\* DiceType.FOUR_BINARY: BinaryDice("FourBinary", 4)
FOUR_BINARY == 4

create_finkel == GameSettings("Standard", "Bell", FOUR_BINARY, 7, TRUE, TRUE, FALSE)

create_masters == GameSettings("Standard", "Masters", FOUR_BINARY, 7, FALSE, TRUE, FALSE)

create_aseb == GameSettings("Aseb", "Aseb", FOUR_BINARY, 5, TRUE, TRUE, FALSE)

with_starting_piece_count(settings, starting_piece_count) ==
    GameSettings(settings.board_shape, settings.paths, settings.num_die,
                 starting_piece_count, settings.safe_rosettes,
                 settings.rosettes_grant_extra_rolls,
                 settings.captures_grant_extra_rolls)

with_rosettes_grant_extra_rolls(settings, rosettes_grant_extra_rolls) ==
    GameSettings(settings.board_shape, settings.paths, settings.num_die,
                 settings.starting_piece_count, settings.safe_rosettes,
                 rosettes_grant_extra_rolls,
                 settings.captures_grant_extra_rolls)

with_captures_grant_extra_rolls(settings, captures_grant_extra_rolls) ==
    GameSettings(settings.board_shape, settings.paths, settings.num_die,
                 settings.starting_piece_count, settings.safe_rosettes,
                 settings.rosettes_grant_extra_rolls,
                 captures_grant_extra_rolls)

\* BoardType.create_board_shape
create_board_shape(name) ==
    IF name = "Standard" THEN StandardBoardShape ELSE AsebBoardShape

\* PathType.create_path_pair
create_path_pair(name) ==
    CASE name = "Bell" -> BellPathPair
      [] name = "Masters" -> MastersPathPair
      [] name = "Aseb" -> AsebPathPair

\* RuleSet._board_shape and RuleSet._paths of the rule set made for settings.
RulesShape(settings) == create_board_shape(settings.board_shape)

RulesPaths(settings) == create_path_pair(settings.paths)

\* BinaryDice.get_max_roll_value
get_max_roll_value(settings) == settings.num_die

\* generate_roll that refuses the largest value of the dice.
generate_roll_below_max(settings, value) ==
    IF value < 0 \/ value >= settings.num_die
    THEN ValueError
    ELSE [value |-> value]

\* BinaryDice.generate_roll
generate_roll(settings, value) ==
    IF value < 0 \/ value > settings.num_die
    THEN ValueError
    ELSE [value |-> value]

----------------------------------------------------------------------------
\* royalur/model/board.py: Piece and Board

Piece(owner, path_index) ==
    IF path_index < 0
    THEN ValueError
    ELSE [owner |-> owner, path_index |-> path_index]

\* Board.__init__ with a shape: width * height cells, all empty.
NewPieces(shape) == [index \in 0..(shape.width * shape.height - 1) |-> None]

\* Board._calc_tile_index
calc_tile_index(shape, ix, iy) == iy * shape.width + ix

\* Board.get on the cells pieces of a board of the given shape.
BoardGet(shape, pieces, tile) ==
    IF ~ShapeContains(shape, tile)
    THEN ValueError
    ELSE pieces[calc_tile_index(shape, TileIx(tile), TileIy(tile))]

\* Board.set: the cells afterwards.
BoardSet(shape, pieces, tile, piece) ==
    IF ~ShapeContains(shape, tile)
    THEN ValueError
    ELSE [pieces EXCEPT ![calc_tile_index(shape, TileIx(tile), TileIy(tile))] = piece]

\* Board.count_pieces
count_pieces(pieces, player) ==
    Cardinality({index \in DOMAIN pieces :
                    pieces[index] # None /\ pieces[index].owner = player})

\* The heap of Board objects. A new object takes the least free id.
NewBoardId(heap) == CHOOSE id \in 1..(Cardinality(DOMAIN heap) + 1) : id \notin DOMAIN heap

\* Board.copy: a new object with a copy of the cells of board id.
BoardCopyHeap(heap, id, newId) ==
    [b \in DOMAIN heap \cup {newId} |-> IF b = newId THEN heap[id] ELSE heap[b]]

----------------------------------------------------------------------------
\* royalur/model/board.py: Move

Move(player, source, source_piece, dest, dest_piece, captured_piece) ==
    IF \/ (source = None) # (source_piece = None)
       \/ (dest = None) # (dest_piece = None)
       \/ (dest = None /\ captured_piece # None)
    THEN ValueError
    ELSE [player |-> player, source |-> source, source_piece |-> source_piece,
          dest |-> dest, dest_piece |-> dest_piece,
          captured_piece |-> captured_piece]

has_source(move) == move.source # None

is_introducing_piece(move) == move.source = None

\* The test of is_introducing_piece in the place of is_scoring_piece's.
is_scoring_piece_by_source(move) == move.source = None

is_scoring_piece(move) == move.dest = None

is_capture(move) == move.captured_piece # None

is_dest_rosette(move, shape) == move.dest # None /\ is_rosette(shape, move.dest)

\* Move.apply: the cells of the board after the move.
MoveApply(move, shape, pieces) ==
    LET cleared == IF move.source # None
                   THEN BoardSet(shape, pieces, move.source, None)
                   ELSE pieces
    IN  IF move.dest # None
        THEN BoardSet(shape, cleared, move.dest, move.dest_piece)
        ELSE cleared

----------------------------------------------------------------------------
\* royalur/rules/state: the game states. board is the id of a Board object.

WaitingForRollGameState(board, light_player, dark_player, turn) ==
    [type |-> "WaitingForRoll", board |-> board, light_player |-> light_player,
     dark_player |-> dark_player, turn |-> turn]

RolledGameState(board, light_player, dark_player, turn, roll, available_moves) ==
    [type |-> "Rolled", board |-> board, light_player |-> light_player,
     dark_player |-> dark_player, turn |-> turn, roll |-> roll,
     available_moves |-> available_moves]

WaitingForMoveGameState(board, light_player, dark_player, turn, roll, available_moves) ==
    [type |-> "WaitingForMove", board |-> board, light_player |-> light_player,
     dark_player |-> dark_player, turn |-> turn, roll |-> roll,
     available_moves |-> available_moves]

\* A Moved state that names the player who did not move.
MovedGameStateOfOther(board, light_player, dark_player, turn, roll, move) ==
    [type |-> "Moved", board |-> board, light_player |-> light_player,
     dark_player |-> dark_player, turn |-> get_other_player(turn), roll |-> roll,
     move |-> move]

MovedGameState(board, light_player, dark_player, turn, roll, move) ==
    [type |-> "Moved", board |-> board, light_player |-> light_player,
     dark_player |-> dark_player, turn |-> turn, roll |-> roll, move |-> move]

WinGameState(board, light_player, dark_player, winner) ==
    [type |-> "Win", board |-> board, light_player |-> light_player,
     dark_player |-> dark_player, winner |-> winner]

\* GameState.get_player
get_player(state, player) ==
    IF player = LIGHT THEN state.light_player ELSE state.dark_player

\* OngoingGameState.get_turn_player, get_waiting_player
get_turn_player(state) == get_player(state, state.turn)

get_waiting_player(state) == get_player(state, get_other_player(state.turn))

----------------------------------------------------------------------------
\* royalur/rules/simple.py

\* SimplePieceProvider
\* An introduced piece that is given the first path index.
create_introduced_first(owner, new_path_index) == Piece(owner, 0)

create_introduced(owner, new_path_index) == Piece(owner, new_path_index)

\* A moved piece that keeps the path index it came from.
create_moved_same_index(origin_piece, new_path_index) ==
    Piece(origin_piece.owner, origin_piece.path_index)

create_moved(origin_piece, new_path_index) == Piece(origin_piece.owner, new_path_index)

\* SimplePlayerStateProvider
create(settings, player) == PlayerState(player, settings.starting_piece_count, 0)

\* An introduced piece that stays in the reserve as well.
apply_piece_introduced_kept(player_state, piece) ==
    PlayerState(player_state.player, player_state.piece_count, player_state.score)

apply_piece_introduced(player_state, piece) ==
    PlayerState(player_state.player, player_state.piece_count - 1, player_state.score)

\* A captured piece that does not come back to its owner's reserve.
apply_piece_captured_lost(player_state, piece) ==
    PlayerState(player_state.player, player_state.piece_count, player_state.score)

apply_piece_captured(player_state, piece) ==
    PlayerState(player_state.player, player_state.piece_count + 1, player_state.score)

apply_piece_scored(player_state, piece) ==
    PlayerState(player_state.player, player_state.piece_count, player_state.score + 1)

\* SimpleRuleSet.generate_initial_game_state, with its new Board as object
\* board.
generate_initial_game_state(settings, board) ==
    WaitingForRollGameState(board, create(settings, LIGHT), create(settings, DARK),
                            LIGHT)

\* find_available_moves, first part: the move that takes a piece off the
\* board, if there is one. path[i + 1] is Python's path[i].
ScoreMoves(settings, pieces, player, roll) ==
    LET player_type == player.player
        path == PathGet(RulesPaths(settings), player_type)
    IN  IF roll.value <= Len(path)
        THEN LET score_path_index == Len(path) - roll.value
                 score_tile == path[score_path_index + 1]
                 score_piece == BoardGet(RulesShape(settings), pieces, score_tile)
             IN  IF /\ score_piece # None
                    /\ score_piece.owner = player_type
                    /\ score_piece.path_index = score_path_index
                 THEN <<Move(player_type, score_tile, score_piece, None, None, None)>>
                 ELSE <<>>
        ELSE <<>>

\* One pass of the loop that never skips an opponent's piece.
MovesFromCapturing(settings, pieces, player, roll, path_index) ==
    LET player_type == player.player
        shape == RulesShape(settings)
        path == PathGet(RulesPaths(settings), player_type)
        tile == IF path_index >= 0 THEN path[path_index + 1] ELSE None
        piece == IF path_index >= 0 THEN BoardGet(shape, pieces, tile) ELSE None
        skip_source ==
            IF path_index >= 0
            THEN \/ piece = None
                 \/ piece.owner # player_type
                 \/ piece.path_index # path_index
            ELSE ~(player.piece_count > 0)
        dest_path_index == path_index + roll.value
        dest == path[dest_path_index + 1]
        dest_piece == BoardGet(shape, pieces, dest)
        skip_dest ==
            /\ dest_piece # None
            /\ dest_piece.owner = player_type
        moved_piece == IF path_index >= 0
                       THEN create_moved(piece, dest_path_index)
                       ELSE create_introduced(player_type, dest_path_index)
    IN  IF skip_source THEN <<>>
        ELSE IF skip_dest THEN <<>>
        ELSE <<Move(player_type, tile, piece, dest, moved_piece, dest_piece)>>

\* One pass of the loop of find_available_moves: the moves (none or one)
\* it appends for path_index.
MovesFrom(settings, pieces, player, roll, path_index) ==
    LET player_type == player.player
        shape == RulesShape(settings)
        path == PathGet(RulesPaths(settings), player_type)
        tile == IF path_index >= 0 THEN path[path_index + 1] ELSE None
        piece == IF path_index >= 0 THEN BoardGet(shape, pieces, tile) ELSE None
        skip_source ==
            IF path_index >= 0
            THEN \/ piece = None
                 \/ piece.owner # player_type
                 \/ piece.path_index # path_index
            ELSE ~(player.piece_count > 0)
        dest_path_index == path_index + roll.value
        dest == path[dest_path_index + 1]
        dest_piece == BoardGet(shape, pieces, dest)
        skip_dest ==
            /\ dest_piece # None
            /\ \/ dest_piece.owner = player_type
               \/ settings.safe_rosettes /\ is_rosette(shape, dest)
        moved_piece == IF path_index >= 0
                       THEN create_moved(piece, dest_path_index)
                       ELSE create_introduced(player_type, dest_path_index)
    IN  IF skip_source THEN <<>>
        ELSE IF skip_dest THEN <<>>
        ELSE <<Move(player_type, tile, piece, dest, moved_piece, dest_piece)>>

\* The loop over range(path_index, stop).
RECURSIVE MovesLoop(_, _, _, _, _, _)
MovesLoop(settings, pieces, player, roll, path_index, stop) ==
    IF path_index >= stop THEN <<>>
    ELSE MovesFrom(settings, pieces, player, roll, path_index)
         \o MovesLoop(settings, pieces, player, roll, path_index + 1, stop)

\* find_available_moves without its first part.
find_available_moves_on_board(settings, pieces, player, roll) ==
    IF roll.value = 0 THEN <<>>
    ELSE LET path == PathGet(RulesPaths(settings), player.player)
         IN  MovesLoop(settings, pieces, player, roll, -1, Len(path) - roll.value)

\* SimpleRuleSet.find_available_moves on the cells pieces of the board.
find_available_moves(settings, pieces, player, roll) ==
    IF roll.value = 0 THEN <<>>
    ELSE LET path == PathGet(RulesPaths(settings), player.player)
         IN  ScoreMoves(settings, pieces, player, roll)
             \o MovesLoop(settings, pieces, player, roll, -1,
                          Len(path) - roll.value)

\* apply_roll that leaves the turn with the player who has no move.
apply_roll_same_turn(settings, heap, state, roll) ==
    LET available_moves ==
            find_available_moves(settings, heap[state.board],
                                 get_turn_player(state), roll)
        rolled_state ==
            RolledGameState(state.board, state.light_player, state.dark_player,
                            state.turn, roll, available_moves)
    IN  IF Len(available_moves) = 0
        THEN <<rolled_state,
               WaitingForRollGameState(state.board, state.light_player,
                                       state.dark_player, state.turn)>>
        ELSE <<rolled_state,
               WaitingForMoveGameState(state.board, state.light_player,
                                       state.dark_player, state.turn, roll,
                                       available_moves)>>

\* apply_roll that waits for a move whatever the available moves.
apply_roll_always_move(settings, heap, state, roll) ==
    LET available_moves ==
            find_available_moves(settings, heap[state.board],
                                 get_turn_player(state), roll)
    IN  <<RolledGameState(state.board, state.light_player, state.dark_player,
                          state.turn, roll, available_moves),
          WaitingForMoveGameState(state.board, state.light_player,
                                  state.dark_player, state.turn, roll,
                                  available_moves)>>

\* SimpleRuleSet.apply_roll: the list of states it returns. heap holds the
\* Board objects.
apply_roll(settings, heap, state, roll) ==
    LET available_moves ==
            find_available_moves(settings, heap[state.board],
                                 get_turn_player(state), roll)
        rolled_state ==
            RolledGameState(state.board, state.light_player, state.dark_player,
                            state.turn, roll, available_moves)
    IN  IF Len(available_moves) = 0
        THEN LET new_turn == get_other_player(state.turn)
             IN  <<rolled_state,
                   WaitingForRollGameState(state.board, state.light_player,
                                           state.dark_player, new_turn)>>
        ELSE <<rolled_state,
               WaitingForMoveGameState(state.board, state.light_player,
                                       state.dark_player, state.turn, roll,
                                       available_moves)>>

\* should_grant_extra_roll that looks at rosettes only.
should_grant_extra_roll_rosettes(settings, moved_state) ==
    /\ settings.rosettes_grant_extra_rolls
    /\ is_dest_rosette(moved_state.move, RulesShape(settings))

\* SimpleRuleSet.should_grant_extra_roll
should_grant_extra_roll(settings, moved_state) ==
    LET move == moved_state.move
    IN  IF /\ settings.rosettes_grant_extra_rolls
           /\ is_dest_rosette(move, RulesShape(settings))
        THEN TRUE
        ELSE settings.captures_grant_extra_rolls /\ is_capture(move)

\* The move applied to the board of the state, and the copy made after.
MovedHeapInPlace(settings, heap, state, move, board) ==
    LET moved == MoveApply(move, RulesShape(settings), heap[state.board])
    IN  [BoardCopyHeap(heap, state.board, board) EXCEPT ![state.board] = moved,
                                                         ![board] = moved]

\* apply_move, "Apply the move to the board": the heap after
\* board = state.board.copy(); move.apply(board), the copy being object
\* board.
MovedHeap(settings, heap, state, move, board) ==
    LET copied == BoardCopyHeap(heap, state.board, board)
    IN  [copied EXCEPT ![board] = MoveApply(move, RulesShape(settings), copied[board])]

\* apply_move, "Apply the move to the player that made the move".
MovedTurnPlayer(state, move) ==
    LET turn_player == get_turn_player(state)
    IN  IF is_introducing_piece(move)
        THEN apply_piece_introduced(turn_player, move.dest_piece)
        ELSE IF is_scoring_piece(move)
        THEN apply_piece_scored(turn_player, move.source_piece)
        ELSE turn_player

\* apply_move, "Apply the effects of the move to the other player".
MovedOtherPlayer(state, move) ==
    LET other_player == get_waiting_player(state)
    IN  IF is_capture(move)
        THEN apply_piece_captured(other_player, move.captured_piece)
        ELSE other_player

\* A win test that looks at the reserve only.
MoveWinsByReserve(move, turn_player, pieces) ==
    is_scoring_piece(move) /\ turn_player.piece_count <= 0

\* apply_move, "Check if the player has won the game": pieces are the cells
\* of the board after the move.
MoveWins(move, turn_player, pieces) ==
    LET turn_player_pieces ==
            turn_player.piece_count + count_pieces(pieces, turn_player.player)
    IN  is_scoring_piece(move) /\ turn_player_pieces <= 0

\* SimpleRuleSet.apply_move: the heap afterwards and the list of states it
\* returns (raised: the error of a constructor it called, states then being
\* empty). board is the id of the Board object it creates.
apply_move(settings, heap, state, move, board) ==
    LET moved_state ==
            MovedGameState(state.board, state.light_player, state.dark_player,
                           state.turn, state.roll, move)
        new_heap == MovedHeap(settings, heap, state, move, board)
        turn_player == MovedTurnPlayer(state, move)
        other_player == MovedOtherPlayer(state, move)
        turn == state.turn
        light_player == IF turn = LIGHT THEN turn_player ELSE other_player
        dark_player == IF turn = DARK THEN turn_player ELSE other_player
    IN  IF turn_player = ValueError \/ other_player = ValueError
        THEN [raised |-> ValueError, heap |-> heap, states |-> <<>>]
        ELSE IF MoveWins(move, turn_player, new_heap[board])
        THEN [raised |-> None, heap |-> new_heap,
              states |-> <<moved_state,
                           WinGameState(board, light_player, dark_player, turn)>>]
        ELSE LET grant_extra_roll == should_grant_extra_roll(settings, moved_state)
                 next_turn == IF grant_extra_roll THEN turn
                              ELSE get_other_player(turn)
             IN  [raised |-> None, heap |-> new_heap,
                  states |-> <<moved_state,
                               WaitingForRollGameState(board, light_player,
                                                       dark_player, next_turn)>>]

----------------------------------------------------------------------------
\* royalur/game.py

\* The settings games are created with: the presets (Game.create_finkel,
\* create_masters, create_aseb) and, through the GameBuilder, Finkel with
\* the two extra-roll switches flipped.
SettingsVariants ==
    {create_finkel, create_masters, create_aseb,
     with_captures_grant_extra_rolls(create_finkel, TRUE),
     with_rosettes_grant_extra_rolls(create_finkel, FALSE)}

\* GameBuilder.starting_piece_count: the settings with few pieces, whose
\* games are explored to their end: each variant with one piece a player,
\* Finkel with 1..MaxPieces.
SmallSettings ==
    {with_starting_piece_count(settings, 1) : settings \in SettingsVariants}

PairSettings == {with_starting_piece_count(create_finkel, MaxPieces)}

\* The settings of the games whose first MaxStates states are explored:
\* the presets as they are, and the small ones.
AllSettings ==
    {create_finkel, create_masters, create_aseb} \cup SmallSettings \cup PairSettings

\* Game.get_current_state
get_current_state == states[Len(states)]

\* Game.is_waiting_for_roll, is_waiting_for_move, is_finished
is_waiting_for_roll == get_current_state.type = "WaitingForRoll"

is_waiting_for_move == get_current_state.type = "WaitingForMove"

is_finished == get_current_state.type = "Win"

\* Game.add_states: each state appended, in order.
add_states(list, added) == list \o added

\* What the model keeps of a list of states: all of it, or the states of
\* the last call.
Keep(list) ==
    IF whole \/ Len(list) <= 2 THEN list ELSE SubSeq(list, Len(list) - 1, Len(list))

\* Object ids are not observable: the model numbers the Board objects that
\* the kept states reference 1, 2, ... in the order the list first
\* references them, and forgets the others.
BoardRank(list, board) ==
    LET first == CHOOSE i \in 1..Len(list) :
                    /\ list[i].board = board
                    /\ \A j \in 1..(i - 1) : list[j].board # board
    IN  Cardinality({list[j].board : j \in 1..first})

Renumbered(list) ==
    [i \in 1..Len(list) |-> [list[i] EXCEPT !.board = BoardRank(list, @)]]

Live(heap, list) ==
    LET referenced == {list[i].board : i \in 1..Len(list)}
    IN  [rank \in 1..Cardinality(referenced) |->
            heap[CHOOSE b \in referenced : BoardRank(list, b) = rank]]

\* A game whose whole history is kept stops growing at MaxStates states.
Room == whole => Len(states) + 2 <= MaxStates

GameInit(settings) ==
    /\ rules = settings
    /\ raised = None
    /\ returned = None
    /\ copy_states = <<>>
    /\ NotEnumerating
    /\ NoLut /\ NoDice
    /\ boards = [b \in {1} |-> NewPieces(RulesShape(settings))]
    /\ states = add_states(<<>>, <<generate_initial_game_state(settings, 1)>>)

\* Game.roll_dice(value): the dice make the roll, then the current state
\* must be waiting for a roll, and the states of apply_roll are added.
RollDice(value) ==
    LET roll == generate_roll(rules, value)
    IN  /\ roll # ValueError
        /\ is_waiting_for_roll
        /\ Room
        /\ \E kept \in {Keep(add_states(states,
                              apply_roll(rules, boards, get_current_state, roll)))} :
               /\ states' = Renumbered(kept)
               /\ boards' = Live(boards, kept)
        /\ raised' = None
        /\ returned' = roll
        /\ UNCHANGED <<rules, whole, copy_states, enumerator_vars, lut_vars, dice_vars>>

\* Game.make_move(move) with one of the available moves of the current
\* state, which must be waiting for a move.
MakeMove ==
    /\ is_waiting_for_move
    /\ Room
    /\ \E move \in Range(get_current_state.available_moves) :
          \E applied \in {apply_move(rules, boards, get_current_state, move,
                                    NewBoardId(boards))} :
              /\ applied.raised = None
              /\ \E kept \in {Keep(add_states(states, applied.states))} :
                     /\ states' = Renumbered(kept)
                     /\ boards' = Live(applied.heap, kept)
    /\ raised' = None
    /\ returned' = None
    /\ UNCHANGED <<rules, whole, copy_states, enumerator_vars, lut_vars, dice_vars>>

Init ==
    /\ whole = FALSE
    /\ \E settings \in SmallSettings : GameInit(settings)

InitPairs ==
    /\ whole = FALSE
    /\ \E settings \in PairSettings : GameInit(settings)

InitWhole ==
    /\ whole = TRUE
    /\ \E settings \in AllSettings : GameInit(settings)

\* The inputs of find_available_moves: the places (owner, path index) a
\* piece can stand on, the sets of up to count places on different tiles,
\* and the cells of the board that holds the pieces of such a set.
Placements(settings) ==
    {Piece(owner, path_index) :
        owner \in PlayerTypes,
        path_index \in 0..(Len(PathGet(RulesPaths(settings), LIGHT)) - 1)}

PlacedTile(settings, piece) ==
    PathGet(RulesPaths(settings), piece.owner)[piece.path_index + 1]

RECURSIVE PlacementSets(_, _)
PlacementSets(settings, count) ==
    IF count = 0 THEN {{}}
    ELSE LET fewer == PlacementSets(settings, count - 1)
             free(placed) ==
                 {new \in Placements(settings) :
                     \A old \in placed :
                         PlacedTile(settings, old) # PlacedTile(settings, new)}
         IN  fewer \cup
             UNION {{placed \cup {piece} : piece \in free(placed)} :
                       placed \in fewer}

RECURSIVE PlacedPieces(_, _, _)
PlacedPieces(settings, pieces, placed) ==
    IF placed = {} THEN pieces
    ELSE LET piece == CHOOSE one \in placed : TRUE
         IN  PlacedPieces(settings,
                          BoardSet(RulesShape(settings), pieces,
                                   PlacedTile(settings, piece), piece),
                          placed \ {piece})

InitMoves ==
    /\ whole = FALSE
    /\ \E settings \in {create_finkel, create_masters, create_aseb} :
          \E placed \in PlacementSets(settings, MaxPlaced) :
              \E piece_count \in 0..MaxReserve, turn \in PlayerTypes :
                  /\ rules = settings
                  /\ raised = None
                  /\ returned = None
                  /\ copy_states = <<>>
                  /\ NotEnumerating
                  /\ NoLut /\ NoDice
                  /\ boards = [b \in {1} |->
                                  PlacedPieces(settings,
                                               NewPieces(RulesShape(settings)),
                                               placed)]
                  /\ states = <<WaitingForRollGameState(
                                    1, PlayerState(LIGHT, piece_count, 0),
                                    PlayerState(DARK, piece_count, 0), turn)>>

NextMoves == \E value \in 0..get_max_roll_value(rules) : RollDice(value)

Next ==
    \/ \E value \in 0..get_max_roll_value(rules) : RollDice(value)
    \/ MakeMove

\* Games whose last call is kept: every position a game can reach.
Spec == Init /\ [][Next]_vars

\* The same for games of the Finkel rules with MaxPieces pieces a player.
SpecPairs == InitPairs /\ [][Next]_vars

\* find_available_moves on every board of up to MaxPlaced pieces that stand
\* on the tiles of their path indices: dice rolled in such positions.
SpecMoves == InitMoves /\ [][NextMoves]_vars

\* Games whose whole list of states is kept, up to MaxStates states.
SpecWhole == InitWhole /\ [][Next]_vars

----------------------------------------------------------------------------
\* royalur/game.py: the calls with every kind of argument and in every
\* state, and the exceptions they raise.

RuntimeError == [raised |-> "RuntimeError"]

UnboundLocalError == [raised |-> "UnboundLocalError"]

\* Roll.__init__: no value is refused.
Roll(value) == [value |-> value]

\* An int given where a Roll may be given.
IntValue(value) == [int |-> value]

\* isinstance(value, Roll), isinstance(move, Move), ... on the arguments.
IsRoll(value) == "value" \in DOMAIN value

IsMove(move) == "player" \in DOMAIN move

IsPiece(move) == "owner" \in DOMAIN move

IsTile(move) == "x" \in DOMAIN move

\* Game.get_current_playable_state and the like, on the list of states of
\* a game.
get_current_playable_state(list) ==
    LET state == list[Len(list)]
    IN  IF state.type \in {"WaitingForRoll", "WaitingForMove"}
        THEN state ELSE RuntimeError

\* The test of get_current_playable_state where a roll is waited for.
get_current_state_to_roll(list) ==
    LET state == list[Len(list)]
    IN  IF state.type \in {"WaitingForRoll", "WaitingForMove"}
        THEN state ELSE RuntimeError

get_current_waiting_for_roll_state(list) ==
    LET state == list[Len(list)]
    IN  IF state.type = "WaitingForRoll" THEN state ELSE RuntimeError

get_current_waiting_for_move_state(list) ==
    LET state == list[Len(list)]
    IN  IF state.type = "WaitingForMove" THEN state ELSE RuntimeError

get_current_win_state(list) ==
    LET state == list[Len(list)]
    IN  IF state.type = "Win" THEN state ELSE RuntimeError

\* Game.get_turn, Game.get_winner
get_turn(list) ==
    LET state == get_current_playable_state(list)
    IN  IF state = RuntimeError THEN RuntimeError ELSE state.turn

get_winner(list) ==
    LET state == get_current_win_state(list)
    IN  IF state = RuntimeError THEN RuntimeError ELSE state.winner

\* What a call did: the exception it raised or None, the Roll it returned
\* or None, the heap afterwards and the states it adds to the game.
Failed(heap, error) ==
    [raised |-> error, returned |-> None, heap |-> heap, states |-> <<>>]

\* Game.roll_dice(value). A roll below 0 makes find_available_moves read
\* path[len(path) - roll.value], past the end of the path.
roll_dice(settings, heap, list, value) ==
    LET roll == IF ~IsRoll(value)
                THEN generate_roll(settings, value.int)
                ELSE value
        state == get_current_waiting_for_roll_state(list)
    IN  IF roll = ValueError THEN Failed(heap, ValueError)
        ELSE IF state = RuntimeError THEN Failed(heap, RuntimeError)
        ELSE IF roll.value < 0 THEN Failed(heap, IndexError)
        ELSE [raised |-> None, returned |-> roll, heap |-> heap,
              states |-> apply_roll(settings, heap, state, roll)]

\* RuleSet.paths: the property reads self._paths and returns nothing.
rules_paths(settings) == None

\* Move.get_source, Move.get_source_piece
get_source(move, paths) ==
    IF move.source = None
    THEN IF paths # None
         THEN IF move.player = LIGHT
              THEN paths.light_with_ends[1] ELSE paths.dark_with_ends[1]
         ELSE RuntimeError
    ELSE move.source

get_source_piece(move) ==
    IF move.source_piece = None THEN RuntimeError ELSE move.source_piece

\* Game._make_move
make_move_applied(settings, heap, list, move, board) ==
    LET state == get_current_waiting_for_move_state(list)
    IN  IF state = RuntimeError THEN Failed(heap, RuntimeError)
        ELSE LET applied == apply_move(settings, heap, state, move, board)
             IN  [raised |-> applied.raised, returned |-> None,
                  heap |-> applied.heap, states |-> applied.states]

\* Game.make_move, the loop for a Piece: the index of the first available
\* move of the piece, or 0.
PieceMoveIndex(moves, piece) ==
    LET found == {i \in 1..Len(moves) :
                     /\ has_source(moves[i])
                     /\ get_source_piece(moves[i]) = piece}
    IN  IF found = {} THEN 0
        ELSE CHOOSE i \in found : \A j \in found : i <= j

\* Game.make_move, the loop for a Tile from the move at index i on: the
\* index of the first available move from the tile, or the exception of
\* get_source, or that of the message that names piece after the loop.
RECURSIVE TileMoveIndex(_, _, _, _)
TileMoveIndex(moves, i, tile, paths) ==
    IF i > Len(moves) THEN UnboundLocalError
    ELSE LET source == get_source(moves[i], paths)
         IN  IF source = RuntimeError THEN RuntimeError
             ELSE IF source = tile THEN [index |-> i]
             ELSE TileMoveIndex(moves, i + 1, tile, paths)

\* Game.make_move(move) with a Move, a Piece or a Tile.
make_move(settings, heap, list, move, board) ==
    LET state == get_current_waiting_for_move_state(list)
    IN  IF IsMove(move)
        THEN make_move_applied(settings, heap, list, move, board)
        ELSE IF state = RuntimeError THEN Failed(heap, RuntimeError)
        ELSE IF IsPiece(move)
        THEN LET index == PieceMoveIndex(state.available_moves, move)
             IN  IF index = 0 THEN Failed(heap, ValueError)
                 ELSE make_move_applied(settings, heap, list,
                                        state.available_moves[index], board)
        ELSE LET found == TileMoveIndex(state.available_moves, 1, move,
                                        rules_paths(settings))
             IN  IF "raised" \in DOMAIN found THEN Failed(heap, found)
                 ELSE make_move_applied(settings, heap, list,
                                        state.available_moves[found.index],
                                        board)

\* The effect of a call on the game: a call that raised leaves the list of
\* states as it was.
Called(outcome) ==
    /\ raised' = outcome.raised
    /\ returned' = outcome.returned
    /\ IF outcome.raised = None
       THEN /\ Room
            /\ \E kept \in {Keep(add_states(states, outcome.states))} :
                   /\ states' = Renumbered(kept)
                   /\ boards' = Live(outcome.heap, kept)
       ELSE UNCHANGED <<states, boards>>
    /\ UNCHANGED <<rules, whole, copy_states, enumerator_vars, lut_vars, dice_vars>>

CallRollDice(value) == Called(roll_dice(rules, boards, states, value))

CallMakeMove(move) ==
    Called(make_move(rules, boards, states, move, NewBoardId(boards)))

\* The arguments of the calls: ints and Rolls from one below the least to
\* one above the largest value of the dice; the available moves, or where
\* there are none the introduction of a light piece; the pieces and the
\* tiles of the pieces on the board, and those of the first path indices.
RollArguments ==
    LET values == (-1)..(get_max_roll_value(rules) + 1)
    IN  {IntValue(value) : value \in values} \cup {Roll(value) : value \in values}

MoveArguments ==
    LET state == get_current_state
        moves == IF "available_moves" \in DOMAIN state
                 THEN Range(state.available_moves)
                 ELSE {Move(LIGHT, None, None,
                            PathGet(RulesPaths(rules), LIGHT)[1],
                            Piece(LIGHT, 0), None)}
        pieces == {piece \in Placements(rules) :
                      \/ piece.path_index = 0
                      \/ BoardGet(RulesShape(rules), boards[state.board],
                                  PlacedTile(rules, piece)) = piece}
    IN  moves \cup pieces \cup {PlacedTile(rules, piece) : piece \in pieces}

InitCalls ==
    \/ /\ whole = FALSE
       /\ GameInit(with_starting_piece_count(create_finkel, 1))
    \/ /\ whole = TRUE
       /\ GameInit(create_finkel)

NextCalls ==
    \/ \E value \in RollArguments : CallRollDice(value)
    \/ \E move \in MoveArguments : CallMakeMove(move)

InitPlay == Init \/ InitWhole

\* The games of Spec and those of SpecWhole.
SpecPlay == InitPlay /\ [][Next]_vars

\* Games on which roll_dice and make_move are called with every argument in
\* every state.
SpecCalls == InitCalls /\ [][NextCalls]_vars

----------------------------------------------------------------------------
\* royalur/game.py: Game.copy. The game and its copy are two lists of the
\* same state objects, whose boards are on the one heap.

\* Game.copy: Game.__init__ adds the states of this game to a new list.
game_copy(list) == add_states(<<>>, list)

Copy ==
    /\ copy_states = <<>>
    /\ copy_states' = game_copy(states)
    /\ raised' = None
    /\ returned' = None
    /\ UNCHANGED <<rules, boards, states, whole, enumerator_vars, lut_vars, dice_vars>>

\* A call that succeeds on the game the copy was made of.
CalledOnGame(outcome) ==
    /\ outcome.raised = None
    /\ Len(states) + 2 <= MaxCopyStates
    /\ states' = add_states(states, outcome.states)
    /\ boards' = outcome.heap
    /\ raised' = None
    /\ returned' = outcome.returned
    /\ UNCHANGED <<rules, whole, copy_states, enumerator_vars, lut_vars, dice_vars>>

\* A call that succeeds on the copy.
CalledOnCopy(outcome) ==
    /\ outcome.raised = None
    /\ Len(copy_states) + 2 <= MaxCopyStates
    /\ copy_states' = add_states(copy_states, outcome.states)
    /\ boards' = outcome.heap
    /\ raised' = None
    /\ returned' = outcome.returned
    /\ UNCHANGED <<rules, whole, states, enumerator_vars, lut_vars, dice_vars>>

GameRollDice(value) ==
    CalledOnGame(roll_dice(rules, boards, states, IntValue(value)))

GameMakeMove ==
    /\ is_waiting_for_move
    /\ \E move \in Range(get_current_state.available_moves) :
          CalledOnGame(make_move(rules, boards, states, move,
                                 NewBoardId(boards)))

CopyRollDice(value) ==
    /\ copy_states # <<>>
    /\ CalledOnCopy(roll_dice(rules, boards, copy_states, IntValue(value)))

CopyMakeMove ==
    /\ copy_states # <<>>
    /\ copy_states[Len(copy_states)].type = "WaitingForMove"
    /\ \E move \in Range(copy_states[Len(copy_states)].available_moves) :
          CalledOnCopy(make_move(rules, boards, copy_states, move,
                                 NewBoardId(boards)))

InitCopy ==
    /\ whole = TRUE
    /\ GameInit(create_finkel)

NextCopy ==
    \/ Copy
    \/ \E value \in 0..get_max_roll_value(rules) : GameRollDice(value)
    \/ GameMakeMove
    \/ \E value \in 0..get_max_roll_value(rules) : CopyRollDice(value)
    \/ CopyMakeMove

\* A game and the copy made of it at some point, each played on.
SpecCopy == InitCopy /\ [][NextCopy]_vars

----------------------------------------------------------------------------
\* royalur/lut/board_encoder.py: SimpleGameStateEncoding

\* Python's a | b and a << n on ints that are not negative.
RECURSIVE BitOr(_, _)
BitOr(a, b) ==
    IF a = 0 THEN b
    ELSE IF b = 0 THEN a
    ELSE (IF a % 2 = 1 \/ b % 2 = 1 THEN 1 ELSE 0)
         + 2 * BitOr(a \div 2, b \div 2)

ShiftLeft(a, n) == a * 2^n

\* add_middle_lane_states over a lane of seven cells.
RECURSIVE add_middle_lane_states_of_seven(_, _, _, _)
add_middle_lane_states_of_seven(state, light_pieces, dark_pieces, index) ==
    LET next_index == index + 1
        added(occupant) ==
            LET new_light_pieces ==
                    IF occupant = 2 THEN light_pieces - 1 ELSE light_pieces
                new_dark_pieces ==
                    IF occupant = 1 THEN dark_pieces - 1 ELSE dark_pieces
                new_state == BitOr(state, ShiftLeft(occupant, 2 * index))
            IN  IF new_light_pieces < 0 \/ new_dark_pieces < 0 THEN <<>>
                ELSE IF next_index = 7 THEN <<new_state>>
                ELSE add_middle_lane_states_of_seven(
                         new_state, new_light_pieces, new_dark_pieces, next_index)
    IN  added(0) \o added(1) \o added(2)

\* add_middle_lane_states: the states it appends to the list, in order. The
\* occupant of a cell is 0 (none), 1 (dark) or 2 (light).
RECURSIVE add_middle_lane_states(_, _, _, _)
add_middle_lane_states(state, light_pieces, dark_pieces, index) ==
    LET next_index == index + 1
        added(occupant) ==
            LET new_light_pieces ==
                    IF occupant = 2 THEN light_pieces - 1 ELSE light_pieces
                new_dark_pieces ==
                    IF occupant = 1 THEN dark_pieces - 1 ELSE dark_pieces
                new_state == BitOr(state, ShiftLeft(occupant, 2 * index))
            IN  IF new_light_pieces < 0 \/ new_dark_pieces < 0 THEN <<>>
                ELSE IF next_index = 8 THEN <<new_state>>
                ELSE add_middle_lane_states(
                         new_state, new_light_pieces, new_dark_pieces, next_index)
    IN  added(0) \o added(1) \o added(2)

\* for index, state in enumerate(states): table[state] = index, over the
\* states first..last of the list; a later index replaces an earlier one.
RECURSIVE Enumerated(_, _, _)
Enumerated(list, first, last) ==
    IF first = last THEN list[first] :> (first - 1)
    ELSE LET middle == (first + last) \div 2
         IN  Enumerated(list, middle + 1, last) @@ Enumerated(list, first, middle)

\* The table that generate_middle_lane_compression fills from the list
\* states: its entries that are set, the others hold -1.
Compression(list) ==
    IF Len(list) = 0 THEN <<>> ELSE Enumerated(list, 1, Len(list))

\* The largest of the entries of the table set for the states first..last.
RECURSIVE LargestEntry(_, _, _, _)
LargestEntry(table, list, first, last) ==
    IF first = last THEN table[list[first]]
    ELSE LET middle == (first + last) \div 2
         IN  Max({LargestEntry(table, list, first, middle),
                  LargestEntry(table, list, middle + 1, last)})

\* __init__: max(self.middle_lane_compression)
max_compressed(table, list) ==
    IF Len(list) = 0 THEN -1
    ELSE Max({-1, LargestEntry(table, list, 1, Len(list))})

\* __init__: bits = 1; while max_compressed > (1 << bits): bits += 1
\* (the comparison is strict: a largest index of exactly 2^n counts n bits).
RECURSIVE CountBits(_, _)
CountBits(largest, bits) ==
    IF largest > ShiftLeft(1, bits) THEN CountBits(largest, bits + 1) ELSE bits

\* __init__ when add_middle_lane_states gave the list states and the table
\* was filled from it: the error it raises, or None.
encoding_init(table, list) ==
    IF CountBits(max_compressed(table, list), 1) # 13
    THEN RuntimeError
    ELSE None

\* The list states of generate_middle_lane_compression.
MiddleLaneStates == add_middle_lane_states(0, 7, 7, 0)

generate_middle_lane_compression == Compression(MiddleLaneStates)

\* middle_lane_compression = [-1] * 0xFFFF: the length of the list.
middle_lane_compression_length == 65535

\* self.middle_lane_compression[state] for a state the list has an entry for
middle_lane_compression(state) ==
    IF state \in DOMAIN generate_middle_lane_compression
    THEN generate_middle_lane_compression[state]
    ELSE -1

\* self.middle_lane_compression[state] for any state that is not negative:
\* the entry, or the IndexError of an index past the end of the list.
middle_lane_compression_get(state) ==
    IF state >= middle_lane_compression_length
    THEN IndexError
    ELSE IntValue(middle_lane_compression(state))

\* SimpleGameStateEncoding(): the error of the constructor, or None.
SimpleGameStateEncoding == encoding_init(generate_middle_lane_compression, MiddleLaneStates)

\* encode_middle_lane: the occupant of a cell, as if every piece were dark.
MiddleLaneOccupantOfAny(piece) == IF piece = None THEN 0 ELSE 1

\* encode_middle_lane: the occupant of a cell that holds piece.
MiddleLaneOccupant(piece) ==
    IF piece = None THEN 0 ELSE (IF piece.owner = DARK THEN 1 ELSE 2)

\* encode_middle_lane: for index in range(8), from index on.
RECURSIVE MiddleLaneLoop(_, _, _, _)
MiddleLaneLoop(shape, pieces, state, index) ==
    IF index = 8 THEN state
    ELSE LET piece == pieces[calc_tile_index(shape, 1, index)]
             occupant == MiddleLaneOccupant(piece)
         IN  MiddleLaneLoop(shape, pieces,
                            BitOr(state, ShiftLeft(occupant, 2 * index)),
                            index + 1)

\* encode_middle_lane on the cells of a board: the compressed index, or the
\* ValueError of a state that the table does not hold. The state of eight
\* occupants of 0..2 is at most 0xAAAA, an index of the list.
encode_middle_lane(shape, pieces) ==
    LET compressed == middle_lane_compression(MiddleLaneLoop(shape, pieces, 0, 0))
    IN  IF compressed = -1 THEN ValueError ELSE IntValue(compressed)

\* encode_side_lane: for index in range(6), from index on.
RECURSIVE SideLaneLoop(_, _, _, _, _)
SideLaneLoop(shape, pieces, board_x, state, index) ==
    IF index = 6 THEN state
    ELSE LET board_y == IF index >= 4 THEN index + 2 ELSE index
             piece == pieces[calc_tile_index(shape, board_x, board_y)]
             occupant == IF piece = None THEN 0 ELSE 1
         IN  SideLaneLoop(shape, pieces, board_x,
                          BitOr(state, ShiftLeft(occupant, index)), index + 1)

encode_side_lane(shape, pieces, board_x) ==
    SideLaneLoop(shape, pieces, board_x, 0, 0)

\* encode_board with the side lanes taken from each other's column.
encode_board_lanes_swapped(shape, pieces) ==
    LET left_lane == encode_side_lane(shape, pieces, 2)
        right_lane == encode_side_lane(shape, pieces, 0)
        middle_lane == encode_middle_lane(shape, pieces)
    IN  IF middle_lane = ValueError THEN ValueError
        ELSE IntValue(BitOr(BitOr(right_lane, ShiftLeft(middle_lane.int, 6)),
                            ShiftLeft(left_lane, 19)))

\* encode_board on the cells of a board
encode_board(shape, pieces) ==
    LET left_lane == encode_side_lane(shape, pieces, 0)
        right_lane == encode_side_lane(shape, pieces, 2)
        middle_lane == encode_middle_lane(shape, pieces)
    IN  IF middle_lane = ValueError THEN ValueError
        ELSE IntValue(BitOr(BitOr(right_lane, ShiftLeft(middle_lane.int, 6)),
                            ShiftLeft(left_lane, 19)))

\* encode_game_state that packs the scores of the players.
encode_game_state_by_score(settings, heap, game_state) ==
    IF game_state.turn # LIGHT THEN ValueError
    ELSE LET state == encode_board(RulesShape(settings), heap[game_state.board])
         IN  IF state = ValueError THEN ValueError
             ELSE IntValue(
                     BitOr(BitOr(state.int,
                                 ShiftLeft(game_state.dark_player.score, 25)),
                           ShiftLeft(game_state.light_player.score, 28)))

\* encode_game_state of an ongoing state of a game with these settings
encode_game_state(settings, heap, game_state) ==
    IF game_state.turn # LIGHT THEN ValueError
    ELSE LET state == encode_board(RulesShape(settings), heap[game_state.board])
         IN  IF state = ValueError THEN ValueError
             ELSE IntValue(
                     BitOr(BitOr(state.int,
                                 ShiftLeft(game_state.dark_player.piece_count, 25)),
                           ShiftLeft(game_state.light_player.piece_count, 28)))

\* The settings of the encoded games: Finkel, and Finkel with two pieces as
\* in the table test/lut/finkel2p.rgu.
EncodedSettings == {create_finkel, with_starting_piece_count(create_finkel, 2)}

\* The states that are encoded: up to MaxEncoded pieces stand on the tiles of
\* their path indices, and each player's reserve, pieces on the board and
\* score add up to starting_piece_count.
InitEncode ==
    /\ whole = FALSE
    /\ \E settings \in EncodedSettings :
          \E placed \in PlacementSets(settings, MaxEncoded) :
              \E light_reserve, dark_reserve \in 0..settings.starting_piece_count :
                  \E turn \in PlayerTypes :
                      LET pieces == PlacedPieces(settings,
                                                 NewPieces(RulesShape(settings)),
                                                 placed)
                          light_score == settings.starting_piece_count
                                         - light_reserve - count_pieces(pieces, LIGHT)
                          dark_score == settings.starting_piece_count
                                        - dark_reserve - count_pieces(pieces, DARK)
                      IN  /\ light_score >= 0
                          /\ dark_score >= 0
                          /\ rules = settings
                          /\ raised = None
                          /\ returned = None
                          /\ copy_states = <<>>
                          /\ NotEnumerating
                          /\ NoLut /\ NoDice
                          /\ boards = [b \in {1} |-> pieces]
                          /\ states = <<WaitingForRollGameState(
                                            1,
                                            PlayerState(LIGHT, light_reserve, light_score),
                                            PlayerState(DARK, dark_reserve, dark_score),
                                            turn)>>

\* encoding = SimpleGameStateEncoding(); encoding.encode_game_state(state)
\* on the current state of the game, once.
EncodeGameState ==
    /\ raised = None
    /\ returned = None
    /\ \E encoded \in {IF SimpleGameStateEncoding # None
                       THEN SimpleGameStateEncoding
                       ELSE encode_game_state(rules, boards, get_current_state)} :
          IF "raised" \in DOMAIN encoded
          THEN raised' = encoded /\ returned' = None
          ELSE raised' = None /\ returned' = encoded
    /\ UNCHANGED <<rules, boards, states, whole, copy_states, enumerator_vars, lut_vars, dice_vars>>

NextEncode == EncodeGameState

\* Every state of InitEncode, encoded.
SpecEncode == InitEncode /\ [][NextEncode]_vars

\* The center columns: one occupant (0 none, 1 dark, 2 light) a cell.
CenterColumns == [0..7 -> 0..2]

\* The cells of a Standard board whose center column holds the occupants;
\* the piece of cell index stands at index 4 + index of the Bell paths.
ColumnPieces(column) ==
    [cell \in DOMAIN NewPieces(StandardBoardShape) |->
        IF \E index \in 0..7 :
              /\ cell = calc_tile_index(StandardBoardShape, 1, index)
              /\ column[index] # 0
        THEN LET index == CHOOSE i \in 0..7 :
                             cell = calc_tile_index(StandardBoardShape, 1, i)
             IN  Piece(IF column[index] = 1 THEN DARK ELSE LIGHT, 4 + index)
        ELSE None]

\* Raw states that are read from the table: the full columns of one
\* colour, states with a cell of 3, and the ends of the 16-bit range.
RawStates == {0, 6, 21845, 43690, 3, 49152, 43691, 65534, 65535}

InitTable ==
    /\ whole = FALSE
    /\ rules = create_finkel
    /\ raised = None
    /\ returned = None
    /\ copy_states = <<>>
    /\ NotEnumerating
    /\ NoLut /\ NoDice
    /\ \E column \in CenterColumns :
          boards = [b \in {1} |-> ColumnPieces(column)]
    /\ states = <<WaitingForRollGameState(1, PlayerState(LIGHT, 0, 0),
                                          PlayerState(DARK, 0, 0), LIGHT)>>

\* encoding.encode_middle_lane(board), once.
EncodeMiddleLane ==
    /\ raised = None
    /\ returned = None
    /\ \E encoded \in {encode_middle_lane(RulesShape(rules), boards[1])} :
          IF "raised" \in DOMAIN encoded
          THEN raised' = encoded /\ returned' = None
          ELSE raised' = None /\ returned' = encoded
    /\ UNCHANGED <<rules, boards, states, whole, copy_states, enumerator_vars, lut_vars, dice_vars>>

\* encoding.middle_lane_compression[state], once: the state read and what
\* the read gave.
ReadCompression ==
    /\ raised = None
    /\ returned = None
    /\ \E state \in RawStates :
          returned' = [state |-> state,
                       compressed |-> middle_lane_compression_get(state)]
    /\ raised' = None
    /\ UNCHANGED <<rules, boards, states, whole, copy_states, enumerator_vars, lut_vars, dice_vars>>

NextTable == EncodeMiddleLane \/ ReadCompression

\* The table read, and every center column encoded.
SpecTable == InitTable /\ [][NextTable]_vars

----------------------------------------------------------------------------
\* royalur/lut/generate_states.py

OCCUPANTS_MASK == 3

LIGHT_ONLY_FLAG == 4

LIGHT_PATH_INDEX_SHIFT == 3

LIGHT_PATH_INDEX_MASK == 31

DARK_PATH_INDEX_SHIFT == 8

DARK_PATH_INDEX_MASK == 31

BOARD_WIDTH == 3

BOARD_HEIGHT == 8

\* piece_count of produce_states and starting_piece_count of
\* loop_board_states.
ProducePieceCount == 7

LoopStartingPieceCount == 7

\* Python's a & b and a >> n on ints that are not negative.
RECURSIVE BitAnd(_, _)
BitAnd(a, b) ==
    IF a = 0 \/ b = 0 THEN 0
    ELSE (IF a % 2 = 1 /\ b % 2 = 1 THEN 1 ELSE 0)
         + 2 * BitAnd(a \div 2, b \div 2)

ShiftRight(a, n) == a \div 2^n

\* A light_path that lacks its last tile.
light_path_without_last ==
    << <<1, 4>>, <<1, 3>>, <<1, 2>>, <<1, 1>>, <<2, 1>>, <<2, 2>>, <<2, 3>>,
       <<2, 4>>, <<2, 5>>, <<2, 6>>, <<2, 7>>, <<2, 8>>, <<1, 8>> >>

\* calculate_tile_flags: the lists light_path and dark_path of (x, y).
light_path ==
    << <<1, 4>>, <<1, 3>>, <<1, 2>>, <<1, 1>>, <<2, 1>>, <<2, 2>>, <<2, 3>>,
       <<2, 4>>, <<2, 5>>, <<2, 6>>, <<2, 7>>, <<2, 8>>, <<1, 8>>, <<1, 7>> >>

dark_path ==
    << <<3, 4>>, <<3, 3>>, <<3, 2>>, <<3, 1>>, <<2, 1>>, <<2, 2>>, <<2, 3>>,
       <<2, 4>>, <<2, 5>>, <<2, 6>>, <<2, 7>>, <<2, 8>>, <<3, 8>>, <<3, 7>> >>

\* Python's list.index on a list that holds the item.
ListIndex(list, item) ==
    (CHOOSE i \in 1..Len(list) :
        list[i] = item /\ \A j \in 1..(i - 1) : list[j] # item) - 1

board_index_count == BOARD_WIDTH * BOARD_HEIGHT

\* calculate_tile_flags(board_index_count): the flags of each board index.
calculate_tile_flags ==
    [index \in 0..(board_index_count - 1) |->
        LET board_x == index % BOARD_WIDTH
            board_y == index \div BOARD_WIDTH
            tile == <<board_x + 1, board_y + 1>>
            in_light_path == tile \in Range(light_path)
            in_dark_path == tile \in Range(dark_path)
            occupants == 1 + (IF in_light_path THEN 1 ELSE 0)
                           + (IF in_dark_path THEN 1 ELSE 0)
            tile_light_only == in_light_path /\ ~in_dark_path
            light_index == IF in_light_path THEN ListIndex(light_path, tile) ELSE 0
            dark_index == IF in_dark_path THEN ListIndex(dark_path, tile) ELSE 0
            light_only_flag == IF tile_light_only THEN LIGHT_ONLY_FLAG ELSE 0
            occupants_flag == BitAnd(occupants, OCCUPANTS_MASK)
            light_path_flag ==
                ShiftLeft(BitAnd(light_index, LIGHT_PATH_INDEX_MASK),
                          LIGHT_PATH_INDEX_SHIFT)
            dark_path_flag ==
                ShiftLeft(BitAnd(dark_index, DARK_PATH_INDEX_MASK),
                          DARK_PATH_INDEX_SHIFT)
        IN  BitOr(BitOr(BitOr(light_only_flag, occupants_flag), light_path_flag),
                  dark_path_flag)]

tile_flags == calculate_tile_flags

\* calculate_next_board_indices: the while True loop that steps from
\* (next_x, next_y) down the column, then to the top of the next column, to
\* the first place that is past the board or whose flags hold more than one
\* occupant.
RECURSIVE NextTile(_, _)
NextTile(next_x, next_y) ==
    LET below == next_y + 1
        x == IF below >= BOARD_HEIGHT THEN next_x + 1 ELSE next_x
        y == IF below >= BOARD_HEIGHT THEN 0 ELSE below
    IN  IF x >= BOARD_WIDTH
           \/ BitAnd(tile_flags[x + BOARD_WIDTH * y], OCCUPANTS_MASK) # 1
        THEN <<x, y>>
        ELSE NextTile(x, y)

calculate_next_board_indices ==
    [index \in 0..(board_index_count - 1) |->
        LET next == NextTile(index % BOARD_WIDTH, index \div BOARD_WIDTH)
        IN  IF next[1] >= BOARD_WIDTH
            THEN board_index_count
            ELSE next[1] + BOARD_WIDTH * next[2]]

next_board_indices == calculate_next_board_indices

\* loop_board_states(game, board_index) when the cells of the board of the
\* game are pieces and the scores of its players are light_score and
\* dark_score: the boards and scores with which it reaches the end of the
\* board, in order. Where dark_won holds it goes on to the next occupant;
\* everywhere else it calls game_consumer, after adding a WinGameState
\* where won holds.
\* Each level sets its cell and both scores before it goes on, and every
\* level reads the scores as the level above set them.
RECURSIVE loop_board_states(_, _, _, _)
loop_board_states(pieces, light_score, dark_score, board_index) ==
    LET tile_flag == tile_flags[board_index]
        light_only == BitAnd(tile_flag, LIGHT_ONLY_FLAG) # 0
        occupants == BitAnd(tile_flag, OCCUPANTS_MASK)
        next_board_index == next_board_indices[board_index]
        light_index == BitAnd(ShiftRight(tile_flag, LIGHT_PATH_INDEX_SHIFT),
                              LIGHT_PATH_INDEX_MASK)
        dark_index == BitAnd(ShiftRight(tile_flag, DARK_PATH_INDEX_SHIFT),
                             DARK_PATH_INDEX_MASK)
        looped(occupant) ==
            LET light_placed == (occupant = 1 /\ light_only) \/ occupant = 2
                dark_placed == occupant = 1 /\ ~light_only
                new_light_score ==
                    IF light_placed THEN light_score - 1 ELSE light_score
                new_dark_score ==
                    IF dark_placed THEN dark_score - 1 ELSE dark_score
                new_piece == IF light_placed THEN light_index + 1
                             ELSE IF dark_placed THEN dark_index + 1
                             ELSE 0
                owner == IF dark_score # new_dark_score THEN DARK ELSE LIGHT
                new_pieces ==
                    [pieces EXCEPT ![board_index] =
                        IF new_piece # 0 THEN Piece(owner, new_piece) ELSE None]
            IN  IF occupant >= occupants THEN <<>>
                ELSE IF new_light_score < 0 \/ new_dark_score < 0 THEN <<>>
                ELSE IF next_board_index >= board_index_count
                THEN <<[board |-> new_pieces,
                        light_player_score |-> new_light_score,
                        dark_player_score |-> new_dark_score,
                        dark_won |-> new_dark_score >= LoopStartingPieceCount,
                        won |-> new_dark_score < LoopStartingPieceCount
                                /\ new_light_score >= LoopStartingPieceCount]>>
                ELSE loop_board_states(new_pieces, new_light_score,
                                       new_dark_score, next_board_index)
    IN  looped(0) \o looped(1) \o looped(2)

\* produce_states: the (light_pieces, dark_pieces) that its two loops over
\* range(piece_count + 1) come to from (light_pieces, dark_pieces) on, in
\* order, of which the model walks those that start with scores of at most
\* MaxScore.
RECURSIVE LoopsFrom(_, _)
LoopsFrom(light_pieces, dark_pieces) ==
    IF light_pieces > ProducePieceCount THEN <<>>
    ELSE LET rest == IF dark_pieces = ProducePieceCount
                     THEN LoopsFrom(light_pieces + 1, 0)
                     ELSE LoopsFrom(light_pieces, dark_pieces + 1)
         IN  IF /\ ProducePieceCount - light_pieces <= MaxScore
                /\ ProducePieceCount - dark_pieces <= MaxScore
             THEN << <<light_pieces, dark_pieces>> >> \o rest
             ELSE rest

WalkedPairs == LoopsFrom(0, 0)

\* The walk in which Light starts with no score and Dark with every piece
\* scored.
DarkWonPairs == << <<ProducePieceCount, 0>> >>

\* produce_states: what the walk it starts for light_pieces and dark_pieces
\* reaches the end of the board with, after board.clear() and with the
\* scores it sets.
WalkOf ==
    [pair \in Range(WalkedPairs) \cup Range(DarkWonPairs) |->
        loop_board_states(NewPieces(RulesShape(create_finkel)),
                          ProducePieceCount - pair[1],
                          ProducePieceCount - pair[2], 0)]

\* The walk that produce_states is in.
Walk == WalkOf[Head(walks)]

\* The current state of the game of produce_states when its loops set the
\* reserves and scores for a pair.
WalkState(pair) ==
    WaitingForRollGameState(
        1,
        [player |-> LIGHT, piece_count |-> pair[1],
         score |-> ProducePieceCount - pair[1]],
        [player |-> DARK, piece_count |-> pair[2],
         score |-> ProducePieceCount - pair[2]],
        LIGHT)

\* loop_light_game_states has started both threads; produce_states has
\* made the game of Game.create_finkel(), cleared its board and set the
\* reserves and scores of the first pair of its loops, and consume_states
\* waits at my_queue.get().
InitEnumerate ==
    /\ whole = TRUE
    /\ rules = create_finkel
    /\ raised = None
    /\ returned = None
    /\ copy_states = <<>>
    /\ NoLut /\ NoDice
    /\ produced = 0
    /\ my_queue = <<>>
    /\ walks \in {WalkedPairs, DarkWonPairs}
    /\ pc = [producer |-> "producing", consumer |-> "consuming"]
    /\ consumed_count = 0
    /\ game_buffer = <<>>
    /\ files = <<>>
    /\ boards = [b \in {1} |-> NewPieces(RulesShape(create_finkel))]
    /\ states = <<WalkState(Head(walks))>>

\* queue.Queue(): maxsize is 0, and Queue.put blocks only while
\* 0 < maxsize <= qsize().
my_queue_maxsize == 0

full(queue) == 0 < my_queue_maxsize /\ my_queue_maxsize <= Len(queue)

\* Queue.put and Queue.get: first in, first out.
put(queue, item) == Append(queue, item)

get_last(queue) == [item |-> queue[Len(queue)], queue |-> SubSeq(queue, 1, Len(queue) - 1)]

get(queue) == [item |-> Head(queue), queue |-> Tail(queue)]

\* game_consumer that puts the Board object of the game itself.
game_consumer_sharing(heap, board, item) ==
    [board |-> board,
     light_player_score |-> item.light_player_score,
     dark_player_score |-> item.dark_player_score]

\* game_consumer(game): the record of the scores of the last state of the
\* game, whose Board object is board, and of the new Board object that
\* board.copy() makes.
game_consumer(heap, board, item) ==
    [board |-> NewBoardId(heap),
     light_player_score |-> item.light_player_score,
     dark_player_score |-> item.dark_player_score]

\* A record of my_queue with the cells of its Board object for the object.
StateData(heap, state_data) == [state_data EXCEPT !.board = heap[@]]

\* The Board objects that are still referenced: that of the game and those
\* of the records of the queue.
Referenced(heap, queue) ==
    [b \in {1} \cup {queue[i].board : i \in {k \in 1..Len(queue) : queue[k] # None}}
        |-> heap[b]]

\* What the walk reaches the end of the board with next, if it is not over
\* and the model follows it further.
Reached ==
    IF pc.producer = "producing" /\ walks # <<>> /\ produced < MaxReached
    THEN {Walk[index] : index \in {produced + 1} \cap DOMAIN Walk}
    ELSE {}

\* loop_board_states reaches the end of the board with Dark not having
\* won: the cells and the scores of the game are those it set on the way, a
\* WinGameState is added when Light has scored every piece, and
\* game_consumer puts the scores and a copy of the board on my_queue.
Produce ==
    /\ ~full(my_queue)
    /\ Len(my_queue) < MaxQueue
    /\ \E item \in Reached :
          \E current_state \in
                {[states[1] EXCEPT
                     !.light_player.score = item.light_player_score,
                     !.dark_player.score = item.dark_player_score]} :
             /\ ~item.dark_won
             /\ states' =
                   IF item.won
                   THEN <<current_state,
                          WinGameState(1, current_state.light_player,
                                       current_state.dark_player, LIGHT)>>
                   ELSE <<current_state>>
             /\ \E heap \in {[boards EXCEPT ![1] = item.board]} :
                    \E state_data \in {game_consumer(heap, 1, item)} :
                        /\ boards' = BoardCopyHeap(heap, 1, state_data.board)
                        /\ my_queue' = put(my_queue, state_data)
    /\ produced' = produced + 1
    /\ UNCHANGED <<rules, whole, raised, returned, copy_states, walks, pc,
                   consumed_count, game_buffer, files, lut_vars, dice_vars>>

\* loop_board_states reaches the end of the board with dark_won: it goes on
\* to the next occupant and nothing is put on my_queue.
Skip ==
    /\ \E item \in Reached :
          /\ item.dark_won
          /\ boards' = [boards EXCEPT ![1] = item.board]
          /\ states' =
                <<[states[1] EXCEPT
                      !.light_player.score = item.light_player_score,
                      !.dark_player.score = item.dark_player_score]>>
    /\ produced' = produced + 1
    /\ UNCHANGED <<rules, whole, raised, returned, copy_states, my_queue, walks,
                   pc, consumed_count, game_buffer, files, lut_vars, dice_vars>>

\* loop_board_states(game, 0) returns and the loops of produce_states go on
\* to the next pair: board.clear() and the reserves and scores of the pair.
NextWalk ==
    /\ pc.producer = "producing"
    /\ Len(walks) > 1
    /\ produced = Len(Walk)
    /\ walks' = Tail(walks)
    /\ produced' = 0
    /\ boards' = [boards EXCEPT ![1] = NewPieces(RulesShape(rules))]
    /\ states' = <<WalkState(walks[2])>>
    /\ UNCHANGED <<rules, whole, raised, returned, copy_states, my_queue, pc,
                   consumed_count, game_buffer, files, lut_vars, dice_vars>>

\* The loops of produce_states are over: game_consumer(None) puts None on
\* my_queue and the thread ends.
ProduceNone ==
    /\ pc.producer = "producing"
    /\ Len(walks) = 1
    /\ produced = Len(Walk)
    /\ ~full(my_queue)
    /\ Len(my_queue) < MaxQueue
    /\ my_queue' = put(my_queue, None)
    /\ walks' = <<>>
    /\ pc' = [pc EXCEPT !.producer = "done"]
    /\ UNCHANGED <<rules, boards, states, whole, raised, returned, copy_states,
                   produced, consumed_count, game_buffer, files, lut_vars, dice_vars>>

\* consume_states: the characters of the owners of the pieces of the board,
\* '.' for an empty place.
RECURSIVE board_state(_, _)
board_state(pieces, index) ==
    IF index >= board_index_count THEN ""
    ELSE (IF pieces[index] = None THEN "."
          ELSE IF pieces[index].owner = LIGHT THEN "L" ELSE "D")
         \o board_state(pieces, index + 1)

\* consume_states: the line of an item; the "\n" that ends it counts as the
\* one character it is.
Line(state_data, encoded) ==
    board_state(state_data.board, 0) \o " "
    \o ToString(state_data.light_player_score) \o " "
    \o ToString(state_data.dark_player_score) \o " "
    \o ToString(encoded) \o "\n"

\* final_consume: board_state, light_score, dark_score, lut_encoding =
\* stuff_tuple unpacks the line, a str, into its characters and raises
\* ValueError unless there are four of them.
Unpacked(stuff_tuple) ==
    IF Len(stuff_tuple) # 4 THEN ValueError ELSE stuff_tuple

\* final_consume: the lines of game_buffer that it writes before the first
\* one that fails to unpack.
RECURSIVE FinalLines(_)
FinalLines(buffer) ==
    IF buffer = <<>> \/ Unpacked(Head(buffer)) = ValueError THEN <<>>
    ELSE <<Head(buffer)>> \o FinalLines(Tail(buffer))

\* final_consume: [raised, lines] of the file it opens for
\* (consumed_count // BUFFER_SIZE) + 1.
final_consume(count, buffer) ==
    [raised |-> IF \E i \in 1..Len(buffer) : Unpacked(buffer[i]) = ValueError
                THEN ValueError ELSE None,
     name |-> (count \div BUFFER_SIZE) + 1,
     lines |-> FinalLines(buffer)]

\* consume_states, one turn of its loop: it takes an item from my_queue. On
\* None it calls final_consume and ends. Otherwise it puts the line of the
\* item, which ends with encoding.encode_board(board), into game_buffer, and
\* when that has filled the buffer it writes the buffer to the file for
\* consumed_count // BUFFER_SIZE and starts a new one.
Consume ==
    /\ pc.consumer = "consuming"
    /\ my_queue # <<>>
    /\ \E got \in {get(my_queue)} :
          /\ my_queue' = got.queue
          /\ IF got.item = None
             THEN \E final \in {final_consume(consumed_count, game_buffer)} :
                     /\ files' = (final.name :> final.lines) @@ files
                     /\ raised' = final.raised
                     /\ pc' = [pc EXCEPT !.consumer = "done"]
                     /\ UNCHANGED <<returned, consumed_count, game_buffer>>
             ELSE \E encoded \in {encode_board(RulesShape(rules),
                                                boards[got.item.board])} :
                     IF "raised" \in DOMAIN encoded
                     THEN /\ raised' = encoded
                          /\ pc' = [pc EXCEPT !.consumer = "done"]
                          /\ UNCHANGED <<returned, consumed_count, game_buffer,
                                         files>>
                     ELSE \E buffer \in {Append(game_buffer,
                                                Line(StateData(boards, got.item),
                                                     encoded.int))} :
                             /\ returned' = encoded
                             /\ consumed_count' = consumed_count + 1
                             /\ IF (consumed_count + 1) % BUFFER_SIZE = 0
                                THEN /\ files' =
                                          ((consumed_count + 1) \div BUFFER_SIZE
                                              :> buffer) @@ files
                                     /\ game_buffer' = <<>>
                                ELSE /\ files' = files
                                     /\ game_buffer' = buffer
                             /\ UNCHANGED <<raised, pc>>
    /\ boards' = Referenced(boards, my_queue')
    /\ UNCHANGED <<rules, states, whole, copy_states, produced, walks,
                   lut_vars, dice_vars>>

NextEnumerate == Produce \/ Skip \/ NextWalk \/ ProduceNone \/ Consume

\* The producer and the consumer of loop_light_game_states.
SpecEnumerate == InitEnumerate /\ [][NextEnumerate]_vars

----------------------------------------------------------------------------
\* lut/reader.py: the look-up table and the reader of its file.

\* LutReader.key_size and LutReader.value_size, in bytes.
key_size == 4

value_size == 2

KeyError == [raised |-> "KeyError"]

TypeError == [raised |-> "TypeError"]

ZeroDivisionError == [raised |-> "ZeroDivisionError"]

\* json.JSONDecodeError, a ValueError.
JSONDecodeError == [raised |-> "JSONDecodeError"]

\* Python's collection[start:stop] of bytes, for 0 <= start <= stop: the
\* slice ends where the bytes end and is empty when it starts beyond them.
Slice(collection, start, stop) ==
    SubSeq(collection, start + 1,
           IF stop < Len(collection) THEN stop ELSE Len(collection))

\* Python's sum of a list of ints.
RECURSIVE sum(_)
sum(list) == IF list = <<>> THEN 0 ELSE list[1] + sum(Tail(list))

\* int.from_bytes(bytes, byteorder="big", signed=False); 0 for no bytes.
RECURSIVE int_from_bytes(_)
int_from_bytes(bytes) ==
    IF bytes = <<>> THEN 0
    ELSE 256 * int_from_bytes(SubSeq(bytes, 1, Len(bytes) - 1)) + bytes[Len(bytes)]

\* Lut.__init__
Lut(keys, values, file_metadata) ==
    [_keys |-> keys,
     _values |-> values,
     _metadata |-> file_metadata,
     _value_size |-> file_metadata.value_int_size_bytes,
     _key_size |-> file_metadata.key_int_size_bytes,
     _map_sizes |-> file_metadata.size_of_maps,
     _len |-> Len(keys) \div file_metadata.key_int_size_bytes]

\* Lut._get_map_offset
_get_map_offset(self, map_index) ==
    sum(Slice(self._map_sizes, 0, map_index)) * self._key_size

\* Lut._query_bytestring
_query_bytestring(self, map_index, index_in_map, collection, item_size) ==
    LET map_offset == _get_map_offset(self, map_index)
    IN  [map_offset |-> map_offset,
         value |-> int_from_bytes(Slice(collection,
                                        map_offset + index_in_map * item_size,
                                        map_offset + (index_in_map + 1) * item_size)),
         index_of_value_in_bytestring |-> map_offset + index_in_map * item_size,
         item_size |-> item_size]

\* Lut._get_value_at_index
_get_value_at_index(self, map_index, index) ==
    _query_bytestring(self, map_index, index, self._values, self._value_size)

\* Lut._get_key_at_index
_get_key_at_index(self, map_index, index) ==
    _query_bytestring(self, map_index, index, self._keys, self._key_size)

\* The while loop of Lut._find_key_index from low and high on. examined is
\* index_of_value_in_bytestring of each _get_key_at_index call so far, in
\* the order of the calls.
RECURSIVE find_key_loop(_, _, _, _, _, _, _)
find_key_loop(self, map_index, key, low, high, steps, examined) ==
    IF low > high
    THEN [index |-> None, steps |-> steps, examined |-> examined]
    ELSE LET mid == (low + high) \div 2
             query == _get_key_at_index(self, map_index, mid)
             mid_key == query.value
             seen == Append(examined, query.index_of_value_in_bytestring)
         IN  IF mid_key = key
             THEN [index |-> IntValue(mid), steps |-> steps, examined |-> seen]
             ELSE IF mid_key < key
             THEN find_key_loop(self, map_index, key, mid + 1, high, steps + 1, seen)
             ELSE find_key_loop(self, map_index, key, low, mid - 1, steps + 1, seen)

\* Lut._find_key_index
_find_key_index(self, map_index, key) ==
    find_key_loop(self, map_index, key, 0, self._len - 1, 0, <<>>)

\* Lut.lookup: the value, or KeyError.
lookup(self, map_index, key) ==
    LET found == _find_key_index(self, map_index, key)
    IN  IF found.index = None THEN KeyError
        ELSE IntValue(_get_value_at_index(self, map_index, found.index.int).value)

\* LutReader._from_bytes: int.from_bytes(value, byteorder="big", signed=True).
_from_bytes(value) ==
    IF value # <<>> /\ value[1] >= 128
    THEN (value[1] - 256) * 256 ^ (Len(value) - 1) + int_from_bytes(Tail(value))
    ELSE int_from_bytes(value)

\* The bytes of "RGU" and of "{}".
RGU == <<82, 71, 85>>

Braces == <<123, 125>>

\* json.loads of a header that holds nothing but braces: "{}" is the one
\* such text that is a JSON document.
json_loads(json_header) ==
    IF json_header = Braces THEN [decoded |-> <<>>]
    ELSE JSONDecodeError

\* The size_of_maps list of LutReader.read: number_of_maps sizes of 4 bytes
\* from start_of_maps on.
RECURSIVE read_size_of_maps(_, _, _)
read_size_of_maps(contents, start_of_maps, number_of_maps) ==
    IF number_of_maps <= 0 THEN <<>>
    ELSE Append(read_size_of_maps(contents, start_of_maps, number_of_maps - 1),
                _from_bytes(Slice(contents,
                                  start_of_maps + 4 * (number_of_maps - 1),
                                  start_of_maps + 4 * number_of_maps)))

\* LutReader.read of a file with these bytes: the Lut, or the exception.
read(contents) ==
    IF Slice(contents, 0, 3) # RGU THEN ValueError
    ELSE IF Len(contents) < 4 THEN IndexError
    ELSE IF contents[4] # 0 THEN ValueError
    ELSE LET header_length == _from_bytes(Slice(contents, 4, 8))
             header_end == 8 + header_length
             json_header == Slice(contents, 8, header_end)
             number_of_maps == _from_bytes(Slice(contents, header_end, header_end + 4))
             start_of_maps == header_end + 4
             size_of_maps == read_size_of_maps(contents, start_of_maps, number_of_maps)
             sum_of_size_of_maps == sum(size_of_maps)
             lut_start == start_of_maps + 4 * number_of_maps
             lut_keys_end == lut_start + key_size * sum_of_size_of_maps
             lut_keys_bytes == Slice(contents, lut_start, lut_keys_end)
             lut_values_start == lut_keys_end
             lut_values_end == lut_values_start + value_size * sum_of_size_of_maps
             lut_values_bytes == Slice(contents, lut_values_start, lut_values_end)
             size_of_lut_in_file == sum_of_size_of_maps * (key_size + value_size)
         IN  IF json_loads(json_header) = JSONDecodeError THEN JSONDecodeError
             ELSE IF size_of_lut_in_file = 0 THEN ZeroDivisionError
             ELSE Lut(lut_keys_bytes,
                      lut_values_bytes,
                      [version |-> contents[4],
                       key_int_size_bytes |-> key_size,
                       value_int_size_bytes |-> value_size,
                       sum_of_size_of_maps |-> sum_of_size_of_maps,
                       number_of_maps |-> number_of_maps,
                       size_of_maps |-> size_of_maps])

\* The files that are read and the keys that are looked up.

\* The keys of the tables are 0..MaxLutKey; a table has up to MaxMaps maps.
MaxLutKey == 3

MaxMaps == 2

\* n.to_bytes(size, byteorder="big")
RECURSIVE to_bytes(_, _)
to_bytes(n, size) ==
    IF size = 0 THEN <<>> ELSE Append(to_bytes(n \div 256, size - 1), n % 256)

\* The ints of a set, ascending.
RECURSIVE Ascending(_)
Ascending(S) ==
    IF S = {} THEN <<>>
    ELSE LET least == CHOOSE n \in S : \A other \in S : n <= other
         IN  <<least>> \o Ascending(S \ {least})

\* The value that the tables hold for a key of a map: no two maps, and no
\* two keys of a map, have the same.
StoredValue(map_index, key) == 1000 * (map_index + 1) + key

\* A table is the list of its maps, a map the ascending list of its keys.
Tables ==
    UNION {[1..n -> {Ascending(S) : S \in SUBSET (0..MaxLutKey)}] : n \in 1..MaxMaps}

\* The keys of the maps from map number m on, one after the other, each as
\* size bytes; and their values.
RECURSIVE KeysBytes(_, _)
KeysBytes(table, m) ==
    IF m > Len(table) THEN <<>>
    ELSE LET keys == table[m]
         IN  [i \in 1..(key_size * Len(keys)) |->
                 to_bytes(keys[(i - 1) \div key_size + 1], key_size)[((i - 1) % key_size) + 1]]
             \o KeysBytes(table, m + 1)

RECURSIVE ValuesBytes(_, _)
ValuesBytes(table, m) ==
    IF m > Len(table) THEN <<>>
    ELSE LET keys == table[m]
         IN  [i \in 1..(value_size * Len(keys)) |->
                 to_bytes(StoredValue(m - 1, keys[(i - 1) \div value_size + 1]),
                          value_size)[((i - 1) % value_size) + 1]]
             \o ValuesBytes(table, m + 1)

RECURSIVE SizesBytes(_, _)
SizesBytes(table, m) ==
    IF m > Len(table) THEN <<>>
    ELSE to_bytes(Len(table[m]), 4) \o SizesBytes(table, m + 1)

\* The file of a table in the format of version 0, with this magic number,
\* version and JSON header.
LutFile(magic, version, json_header, table) ==
    magic \o <<version>> \o to_bytes(Len(json_header), 4) \o json_header
    \o to_bytes(Len(table), 4) \o SizesBytes(table, 1)
    \o KeysBytes(table, 1) \o ValuesBytes(table, 1)

\* The whole files of the tables, with the header {}.
WholeFiles == {LutFile(RGU, 0, Braces, table) : table \in Tables}

\* The tables whose files are also read cut short, or with another magic
\* number or version.
DamagedTables == {<<<<1>>>>, <<<<3>>, <<0, 2>>>>}

TruncatedFiles ==
    UNION {{SubSeq(LutFile(RGU, 0, Braces, table), 1, n) :
               n \in 0..(Len(LutFile(RGU, 0, Braces, table)) - 1)} :
           table \in DamagedTables}

BadMagicFiles ==
    {LutFile(magic, 0, Braces, table) :
        magic \in {<<82, 71, 66>>, <<85, 71, 82>>}, table \in DamagedTables}

BadVersionFiles ==
    {LutFile(RGU, version, Braces, table) :
        version \in {1, 255}, table \in DamagedTables}

\* The file at _file_path has been written and not been read.
InitLut ==
    /\ rules = create_finkel
    /\ boards = <<>>
    /\ states = <<>>
    /\ whole = FALSE
    /\ raised = None
    /\ returned = None
    /\ copy_states = <<>>
    /\ NotEnumerating
    /\ binary_contents \in WholeFiles \cup TruncatedFiles \cup BadMagicFiles
                           \cup BadVersionFiles
    /\ lut = None
    /\ looked_up = None
    /\ evaluated = <<>>
    /\ viewed = None
    /\ NoDice

\* lut = LutReader(file_path).read()
Read ==
    /\ lut = None
    /\ raised = None
    /\ \E result \in {read(binary_contents)} :
          IF "raised" \in DOMAIN result
          THEN raised' = result /\ lut' = lut
          ELSE raised' = None /\ lut' = result
    /\ UNCHANGED <<rules, boards, states, whole, returned, copy_states,
                   enumerator_vars, binary_contents, looked_up, evaluated, viewed,
                   dice_vars>>

\* lut.lookup(map_index, key), once, for a map of the table and a key: one
\* of the keys of the tables, or the key above them all.
Lookup ==
    /\ lut # None
    /\ looked_up = None
    /\ \E map_index \in 0..(Len(lut._map_sizes) - 1), key \in 0..(MaxLutKey + 1) :
          \E found \in {_find_key_index(lut, map_index, key)} :
              \E result \in {lookup(lut, map_index, key)} :
                  /\ looked_up' = [map_index |-> map_index, key |-> key,
                                   examined |-> found.examined]
                  /\ IF "raised" \in DOMAIN result
                     THEN raised' = result /\ returned' = None
                     ELSE raised' = None /\ returned' = result
    /\ UNCHANGED <<rules, boards, states, whole, copy_states, enumerator_vars,
                   binary_contents, lut, evaluated, viewed, dice_vars>>

\* The ints of size bytes each that the bytes hold, from the i-th on.
RECURSIVE IntsFrom(_, _, _)
IntsFrom(bytes, size, i) ==
    IF size * i >= Len(bytes) THEN <<>>
    ELSE <<int_from_bytes(Slice(bytes, size * i, size * (i + 1)))>>
         \o IntsFrom(bytes, size, i + 1)

\* np.frombuffer(bytes, dtype=f'>u{size}'): the array, or ValueError for
\* bytes that are no whole number of elements.
frombuffer(bytes, size) ==
    IF Len(bytes) % size # 0 THEN ValueError
    ELSE [array |-> IntsFrom(bytes, size, 0)]

\* Lut.keys_as_numpy and Lut.values_as_numpy called with these arguments
\* after self: the methods take none.
keys_as_numpy(self, args) ==
    IF args # <<>> THEN TypeError ELSE frombuffer(self._keys, self._key_size)

values_as_numpy(self, args) ==
    IF args # <<>> THEN TypeError ELSE frombuffer(self._values, self._value_size)

\* Lut.__len__
len(self) == IntValue(self._len)

\* What a call of one of the three leaves.
Viewed(name, args, result) ==
    /\ lut # None
    /\ looked_up = None
    /\ viewed = None
    /\ viewed' = [name |-> name, args |-> args, result |-> result]
    /\ IF "raised" \in DOMAIN result
       THEN raised' = result /\ returned' = None
       ELSE raised' = None /\ returned' = result
    /\ UNCHANGED <<rules, boards, states, whole, copy_states, enumerator_vars,
                   binary_contents, lut, looked_up, evaluated, dice_vars>>

\* lut.keys_as_numpy() and lut.keys_as_numpy(map_index), once
KeysAsNumpy ==
    \E args \in {<<>>} \cup {<<map_index>> : map_index \in 0..MaxMaps} :
        Viewed("keys_as_numpy", args, keys_as_numpy(lut, args))

\* lut.values_as_numpy() and lut.values_as_numpy(map_index), once
ValuesAsNumpy ==
    \E args \in {<<>>} \cup {<<map_index>> : map_index \in 0..MaxMaps} :
        Viewed("values_as_numpy", args, values_as_numpy(lut, args))

\* len(lut), once
LenLut == Viewed("len", <<>>, len(lut))

NextLut == Read \/ Lookup \/ KeysAsNumpy \/ ValuesAsNumpy \/ LenLut

\* A file is read and a key is looked up in the table.
SpecLut == InitLut /\ [][NextLut]_vars

----------------------------------------------------------------------------
\* lut/lut_player.py: the agent that plays Light from a look-up table.

\* The value of a position that Light has won.
MaxValue == 65535

AssertionError == [raised |-> "AssertionError"]

\* The cells of a board with every piece given to the other player and put
\* on the tile of its path index on that player's path: the two paths
\* mirror each other, so the piece of column ix goes to column
\* width - 1 - ix of its row.
InvertedPieces(shape, pieces) ==
    [index \in DOMAIN pieces |->
        LET ix == index % shape.width
            iy == index \div shape.width
            piece == pieces[calc_tile_index(shape, shape.width - 1 - ix, iy)]
        IN  IF piece = None THEN None
            ELSE Piece(get_other_player(piece.owner), piece.path_index)]

\* GameState.copy_inverted of a state that waits for a roll: the state on a
\* new Board object, id board, with the pieces of the two players swapped,
\* each player with the reserve and the score of the other, and the turn
\* of the other player.
copy_inverted(settings, heap, game_state, board) ==
    [heap |-> [b \in DOMAIN heap \cup {board} |->
                  IF b = board
                  THEN InvertedPieces(RulesShape(settings), heap[game_state.board])
                  ELSE heap[b]],
     state |-> WaitingForRollGameState(
                   board,
                   PlayerState(LIGHT, game_state.dark_player.piece_count,
                               game_state.dark_player.score),
                   PlayerState(DARK, game_state.light_player.piece_count,
                               game_state.light_player.score),
                   get_other_player(game_state.turn))]

\* LutAgent.play, the end of the body of its loop down to
\* encode_game_state, when state is what the encoder gave for the state
\* encoded: the exception raised, or the state encoded and its key.
encoded_after(state, encoded, inverted) ==
    IF inverted /\ encoded.turn # LIGHT THEN AssertionError
    ELSE IF "raised" \in DOMAIN state THEN state
    ELSE [finished |-> FALSE, inverted |-> inverted, encoded |-> encoded,
          state |-> state.int]

\* The same from copy_inverted on, inverse being what it gave.
inverted_after(settings, inverse) ==
    encoded_after(encode_game_state(settings, inverse.heap, inverse.state),
                  inverse.state, TRUE)

\* The body of the loop after game_copy.make_move(move), made being what
\* that call did.
made_after(settings, made) ==
    IF made.raised # None THEN made.raised
    ELSE IF made.states[Len(made.states)].type = "Win"
    THEN [finished |-> TRUE, winner |-> made.states[Len(made.states)].winner]
    ELSE IF made.states[Len(made.states)].turn # LIGHT
    THEN inverted_after(settings,
                        copy_inverted(settings, made.heap,
                                      made.states[Len(made.states)],
                                      NewBoardId(made.heap)))
    ELSE encoded_after(encode_game_state(settings, made.heap,
                                         made.states[Len(made.states)]),
                       made.states[Len(made.states)], FALSE)

\* LutAgent.play, the body of its loop down to encode_game_state: what the
\* move leads to. The exception raised; or, for a move that ends the game,
\* its winner; or the state that is encoded and its key.
state_after(settings, heap, list, move) ==
    made_after(settings,
               make_move(settings, heap, game_copy(list), move, NewBoardId(heap)))

\* The Board objects of the game, those of heap, as a call that left the
\* heap of the outcome made leaves them.
game_heap(heap, made) == [b \in DOMAIN heap |-> made.heap[b]]

\* The Board objects of the game after game_copy = game.copy();
\* game_copy.make_move(move).
heap_after(settings, heap, list, move) ==
    game_heap(heap, make_move(settings, heap, game_copy(list), move,
                              NewBoardId(heap)))

\* The value as it is looked up, inverted or not.
inverted_value_as_looked_up(value, inverted) == value

\* if inverted: value = 65535 - value, of what lookup gave.
inverted_value(value, inverted) ==
    IF "raised" \in DOMAIN value THEN value
    ELSE IntValue(IF inverted THEN MaxValue - value.int ELSE value.int)

\* The rest of the body of the loop but for what it keeps the highest value
\* with: the value of the move, or the exception raised.
value_of(the_lut, after) ==
    IF "raised" \in DOMAIN after THEN after
    ELSE IF after.finished
    THEN IntValue(IF after.winner = DARK THEN 0 ELSE MaxValue)
    ELSE inverted_value(lookup(the_lut, 0, after.state), after.inverted)

\* The loop of LutAgent.play over the moves that are left: the exception
\* raised or None, the move returned or None, what the loop did for each
\* move before (the move, what it led to and its value), and the Board
\* objects of the game as the loop leaves them.
RECURSIVE play_loop(_, _, _, _, _, _, _, _)

\* The end of the body of the loop for the first of the moves, of this
\* value, and the rest of the loop; heap is what the body has made of the
\* Board objects of the game.
keep_highest(settings, heap, list, the_lut, moves, highest_value, highest_move, done, after, value) ==
    IF "raised" \in DOMAIN value
    THEN [raised |-> value, returned |-> None, evaluated |-> done, heap |-> heap]
    ELSE play_loop(settings, heap, list, the_lut, Tail(moves),
                   IF value.int > highest_value THEN value.int ELSE highest_value,
                   IF value.int > highest_value THEN Head(moves) ELSE highest_move,
                   Append(done, [move |-> Head(moves), after |-> after,
                                 value |-> value.int]))

\* The body of the loop from the look-up on.
value_after(settings, heap, list, the_lut, moves, highest_value, highest_move, done, after) ==
    keep_highest(settings, heap, list, the_lut, moves, highest_value,
                 highest_move, done, after, value_of(the_lut, after))

play_loop(settings, heap, list, the_lut, moves, highest_value, highest_move, done) ==
    IF moves = <<>>
    THEN [raised |-> None, returned |-> highest_move, evaluated |-> done,
          heap |-> heap]
    ELSE value_after(settings, heap_after(settings, heap, list, Head(moves)),
                     list, the_lut, moves, highest_value, highest_move, done,
                     state_after(settings, heap, list, Head(moves)))

\* LutAgent.play(game)
play(settings, heap, list, the_lut) ==
    LET state == get_current_waiting_for_move_state(list)
    IN  IF state = RuntimeError
        THEN [raised |-> RuntimeError, returned |-> None, evaluated |-> <<>>,
              heap |-> heap]
        ELSE play_loop(settings, heap, list, the_lut, state.available_moves,
                       0, None, <<>>)

\* The games that the agent plays in and the tables it plays from.

\* The most pieces on the board when the agent is to move.
MaxAgentPlaced == 2

\* Finkel with two pieces a player, the rules of the table
\* test/lut/finkel2p.rgu.
AgentSettings == with_starting_piece_count(create_finkel, 2)

\* A key that every table of the agent holds: that of a position of these
\* rules that Light has won, which no move that goes on with the game leads
\* to.
LightWonKey == 67108864

\* The values that the tables give the other keys.
AgentValues == {0, 40000, MaxValue}

\* The file of a table of one map, a function from its keys to their values.
TableFile(table) ==
    LET keys == Ascending(DOMAIN table)
    IN  RGU \o <<0>> \o to_bytes(Len(Braces), 4) \o Braces
        \o to_bytes(1, 4) \o to_bytes(Len(keys), 4)
        \o [i \in 1..(key_size * Len(keys)) |->
               to_bytes(keys[(i - 1) \div key_size + 1], key_size)[((i - 1) % key_size) + 1]]
        \o [i \in 1..(value_size * Len(keys)) |->
               to_bytes(table[keys[(i - 1) \div value_size + 1]],
                        value_size)[((i - 1) % value_size) + 1]]

\* The keys that play looks up for the moves of a list.
KeysAfter(settings, heap, list, moves) ==
    {after.state : after \in {found \in {state_after(settings, heap, list, moves[i]) :
                                            i \in 1..Len(moves)} :
                                 "finished" \in DOMAIN found /\ ~found.finished}}

\* The game waits for a move of Light after apply_roll of a roll that allows
\* a move, with up to MaxAgentPlaced pieces on the tiles of their path
\* indices; with the pieces of its reserve and those that have scored each
\* player has starting_piece_count pieces, and not all have scored. agent =
\* LutAgent(lut_path) has read a table that holds some of the keys that the
\* moves lead to.
InitAgent ==
    /\ whole = FALSE
    /\ rules = AgentSettings
    /\ raised = None
    /\ returned = None
    /\ copy_states = <<>>
    /\ NotEnumerating
    /\ looked_up = None
    /\ evaluated = <<>>
    /\ viewed = None
    /\ NoDice
    /\ \E placed \in PlacementSets(AgentSettings, MaxAgentPlaced) :
          \E light_reserve, dark_reserve \in 0..AgentSettings.starting_piece_count :
              \E value \in 1..get_max_roll_value(AgentSettings) :
                  \E pieces \in {PlacedPieces(AgentSettings,
                                              NewPieces(RulesShape(AgentSettings)),
                                              placed)} :
                      LET light_score == AgentSettings.starting_piece_count
                                         - light_reserve - count_pieces(pieces, LIGHT)
                          dark_score == AgentSettings.starting_piece_count
                                        - dark_reserve - count_pieces(pieces, DARK)
                      IN  /\ light_score >= 0
                          /\ dark_score >= 0
                          /\ light_score < AgentSettings.starting_piece_count
                          /\ dark_score < AgentSettings.starting_piece_count
                          /\ boards = [b \in {1} |-> pieces]
                          /\ \E rolled \in {apply_roll(
                                                AgentSettings, boards,
                                                WaitingForRollGameState(
                                                    1,
                                                    PlayerState(LIGHT, light_reserve, light_score),
                                                    PlayerState(DARK, dark_reserve, dark_score),
                                                    LIGHT),
                                                Roll(value))} :
                                /\ rolled[2].type = "WaitingForMove"
                                /\ states = <<rolled[2]>>
                                /\ \E stored \in SUBSET KeysAfter(AgentSettings, boards, states,
                                                                  rolled[2].available_moves) :
                                      \E table \in [stored \cup {LightWonKey} -> AgentValues] :
                                          /\ table[LightWonKey] = MaxValue
                                          /\ binary_contents = TableFile(table)
                                          /\ lut = read(binary_contents)

\* move = agent.play(game)
Play ==
    /\ raised = None
    /\ returned = None
    /\ evaluated = <<>>
    /\ \E played \in {play(rules, boards, states, lut)} :
          /\ raised' = played.raised
          /\ returned' = played.returned
          /\ evaluated' = played.evaluated
          /\ boards' = played.heap
    /\ UNCHANGED <<rules, states, whole, copy_states, enumerator_vars,
                   binary_contents, lut, looked_up, viewed, dice_vars>>

NextAgent == Play

\* A move of the agent in each of the games.
SpecAgent == InitAgent /\ [][NextAgent]_vars

----------------------------------------------------------------------------
\* royalur/model/dice.py: the dice of DiceType.

AttributeError == [raised |-> "AttributeError"]

\* The most calls of a dice that are followed.
MaxDiceCalls == 2

\* BinaryDice.__init__, but for the probabilities.
BinaryDice(name, num_die) ==
    [class |-> "BinaryDice", _name |-> name, _num_die |-> num_die]

\* BinaryDice0AsMax.__init__, but for the probabilities.
BinaryDice0AsMax(name, num_die) ==
    [class |-> "BinaryDice0AsMax", _name |-> name, _num_die |-> num_die,
     _max_roll_value |-> num_die + 1]

\* DiceType.FOUR_BINARY.create_dice() and
\* DiceType.THREE_BINARY_0MAX.create_dice()
FourBinaryDice == BinaryDice("FourBinary", FOUR_BINARY)

THREE_BINARY_0MAX == BinaryDice0AsMax("ThreeBinary0Max", 3)

\* self.max_roll_value: the attribute of this name, which no class of the
\* dice defines (the slot is _max_roll_value).
max_roll_value(self) ==
    IF "max_roll_value" \in DOMAIN self THEN IntValue(self.max_roll_value)
    ELSE AttributeError

\* Dice.get_max_roll_value of the two classes.
dice_get_max_roll_value(self) ==
    IF self.class = "BinaryDice0AsMax" THEN max_roll_value(self)
    ELSE IntValue(self._num_die)

\* The number of coins that came up: random.random() >= 0.5.
RECURSIVE CoinCount(_)
CoinCount(coins) ==
    IF coins = <<>> THEN 0
    ELSE (IF Head(coins) THEN 1 ELSE 0) + CoinCount(Tail(coins))

\* Dice.roll_value of the two classes, when the coins fall like this.
dice_roll_value(self, coins) ==
    IF self.class = "BinaryDice0AsMax" /\ CoinCount(coins) = 0
    THEN max_roll_value(self)
    ELSE IntValue(CoinCount(coins))

\* BinaryDice0AsMax.generate_roll when self.max_roll_value gave maximum.
generate_roll_0_as_max(value, maximum) ==
    IF value <= 0 THEN ValueError
    ELSE IF "raised" \in DOMAIN maximum THEN maximum
    ELSE IF value > maximum.int THEN ValueError
    ELSE Roll(value)

\* Dice.generate_roll of the two classes.
dice_generate_roll(self, value) ==
    IF self.class = "BinaryDice0AsMax"
    THEN generate_roll_0_as_max(value, max_roll_value(self))
    ELSE IF value < 0 \/ value > self._num_die THEN ValueError
    ELSE Roll(value)

\* Dice.roll from generate_roll on, value being the value given or what
\* roll_value gave.
dice_roll_of(self, value) ==
    IF "raised" \in DOMAIN value THEN value
    ELSE dice_generate_roll(self, value.int)

\* Dice.roll(value): value is None or an int; the coins are thrown for
\* None.
dice_roll(self, value, coins) ==
    dice_roll_of(self, IF value = None THEN dice_roll_value(self, coins) ELSE value)

\* The values that a roll is forced to.
ForcedValues == -1..6

\* dice = DiceType.FOUR_BINARY.create_dice(), or the same of
\* THREE_BINARY_0MAX.
InitDice ==
    /\ rules = create_finkel
    /\ boards = <<>>
    /\ states = <<>>
    /\ whole = FALSE
    /\ raised = None
    /\ returned = None
    /\ copy_states = <<>>
    /\ NotEnumerating
    /\ NoLut
    /\ dice \in {FourBinaryDice, THREE_BINARY_0MAX}
    /\ dice_calls = <<>>

\* What a call of the dice leaves: the Roll or the int it returned, or the
\* exception.
DiceCalled(call, result) ==
    /\ Len(dice_calls) < MaxDiceCalls
    /\ dice_calls' = Append(dice_calls, [call |-> call, result |-> result])
    /\ IF "raised" \in DOMAIN result
       THEN raised' = result /\ returned' = None
       ELSE raised' = None /\ returned' = result
    /\ UNCHANGED <<rules, boards, states, whole, copy_states, enumerator_vars,
                   lut_vars, dice>>

\* dice.get_max_roll_value()
GetMaxRollValue ==
    DiceCalled([name |-> "get_max_roll_value"], dice_get_max_roll_value(dice))

\* dice.roll(value)
RollForced ==
    \E value \in ForcedValues :
        DiceCalled([name |-> "roll", value |-> IntValue(value)],
                   dice_roll(dice, IntValue(value), <<>>))

\* dice.roll(), the coins falling in one of the ways they can.
RollRandom ==
    \E coins \in [1..dice._num_die -> BOOLEAN] :
        DiceCalled([name |-> "roll", value |-> None, coins |-> coins],
                   dice_roll(dice, None, coins))

NextDice == GetMaxRollValue \/ RollForced \/ RollRandom

\* The calls of a dice of either type.
SpecDice == InitDice /\ [][NextDice]_vars

----------------------------------------------------------------------------
\* Properties of the rules engine.

\* The cells of the board of a kept state.
BoardOf(state) == boards[state.board]

\* The kept states that are followed by another kept state.
Followed == 1..(Len(states) - 1)

\* C1. Piece conservation: in every state of the list, for each player,
\* reserve + pieces on the board + score is starting_piece_count, reserve
\* and score are not negative, and no available move makes a player state
\* with a negative count (PlayerState would raise).
PieceConservation ==
    /\ \A i \in 1..Len(states) : \A player \in PlayerTypes :
          LET player_state == get_player(states[i], player)
          IN  /\ player_state.piece_count >= 0
              /\ player_state.score >= 0
              /\ player_state.piece_count
                    + count_pieces(BoardOf(states[i]), player)
                    + player_state.score = rules.starting_piece_count
    /\ is_waiting_for_move =>
          \A move \in Range(get_current_state.available_moves) :
              apply_move(rules, boards, get_current_state, move,
                         NewBoardId(boards)).raised = None

\* A capture was made by a player who has scored a piece before.
CaptureAfterScore ==
    /\ Len(states) = 2
    /\ states[1].type = "Moved"
    /\ is_capture(states[1].move)
    /\ get_turn_player(states[1]).score > 0
    /\ get_waiting_player(states[1]).piece_count > 0

\* C2. Path-index invariant: in every state of the list every piece on the
\* board stands on the tile that its owner's path has at the piece's
\* path_index, and the cells outside the board shape are empty.
PathIndexInvariant ==
    \A i \in 1..Len(states) :
        LET shape == RulesShape(rules)
            pieces == BoardOf(states[i])
        IN  \A ix \in 0..(shape.width - 1), iy \in 0..(shape.height - 1) :
                LET tile == Tile(ix + 1, iy + 1)
                    piece == pieces[calc_tile_index(shape, ix, iy)]
                IN  piece # None =>
                       LET path == PathGet(RulesPaths(rules), piece.owner)
                       IN  /\ ShapeContains(shape, tile)
                           /\ piece.path_index >= 0
                           /\ piece.path_index < Len(path)
                           /\ path[piece.path_index + 1] = tile

\* A piece was moved along the board onto the last tile of its path.
MovedToLastTile ==
    /\ Len(states) = 2
    /\ states[1].type = "Moved"
    /\ has_source(states[1].move)
    /\ ~is_scoring_piece(states[1].move)
    /\ states[1].move.dest_piece.path_index + 1
          = Len(PathGet(RulesPaths(rules), states[1].turn))

\* C3. apply_roll on the current WaitingForRoll state adds exactly two
\* states: a Rolled state with the turn player, the roll and the available
\* moves, then WaitingForRoll for the other player when the roll is 0 or
\* there is no legal move, and else WaitingForMove for the same player with
\* the same roll and moves; the board and the player states stay.
ApplyRollReturns ==
    [][(is_waiting_for_roll /\ states' # states) =>
          LET pre == get_current_state
              count == Len(states')
              rolled == states'[count - 1]
              next == states'[count]
              moves == find_available_moves(rules, BoardOf(pre),
                                            get_turn_player(pre), rolled.roll)
              same(state) ==
                  /\ boards'[state.board] = BoardOf(pre)
                  /\ state.light_player = pre.light_player
                  /\ state.dark_player = pre.dark_player
          IN  /\ count = IF whole THEN Len(states) + 2 ELSE 2
              /\ rolled.type = "Rolled"
              /\ rolled.turn = pre.turn
              /\ rolled.roll.value \in 0..get_max_roll_value(rules)
              /\ rolled.available_moves = moves
              /\ same(rolled)
              /\ same(next)
              /\ IF rolled.roll.value = 0 \/ Len(moves) = 0
                 THEN /\ next.type = "WaitingForRoll"
                      /\ next.turn = get_other_player(pre.turn)
                 ELSE /\ next.type = "WaitingForMove"
                      /\ next.turn = pre.turn
                      /\ next.roll = rolled.roll
                      /\ next.available_moves = moves]_vars

\* A roll above 0 left the player without a legal move, and the turn went
\* to the other player.
RolledWithoutMove ==
    /\ Len(states) = 2
    /\ states[1].type = "Rolled"
    /\ states[1].roll.value > 0
    /\ Len(states[1].available_moves) = 0
    /\ states[2].type = "WaitingForRoll"
    /\ states[2].turn # states[1].turn

\* C4. apply_move returns [Moved, Win] exactly when the move scores and
\* leaves the mover with reserve 0 and no piece on the board; the winner is
\* the mover; in every other case the second state is WaitingForRoll.
ApplyMoveWins ==
    \A i \in Followed :
        states[i].type = "Moved" =>
            LET moved == states[i]
                next == states[i + 1]
                mover == moved.turn
            IN  /\ next.type = "Win" <=>
                      /\ is_scoring_piece(moved.move)
                      /\ get_player(next, mover).piece_count = 0
                      /\ count_pieces(BoardOf(next), mover) = 0
                /\ next.type = "Win" => next.winner = mover
                /\ next.type # "Win" => next.type = "WaitingForRoll"
                /\ moved.move.player = mover

\* A player won while a piece of the other player stood on the board.
WonWithOpponentOnBoard ==
    /\ is_finished
    /\ states[Len(states) - 1].type = "Moved"
    /\ count_pieces(BoardOf(get_current_state),
                    get_other_player(get_current_state.winner)) > 0

WinDetection ==
    is_finished <=>
        \E player \in PlayerTypes :
            /\ get_player(get_current_state, player).piece_count = 0
            /\ count_pieces(BoardOf(get_current_state), player) = 0

\* The dark player won while the light player's piece was in reserve.
DarkWon ==
    /\ is_finished
    /\ get_current_state.winner = DARK
    /\ get_current_state.light_player.piece_count > 0

\* C8. Every WaitingForMove state of the list has available moves, and they
\* are find_available_moves of its own board, turn player and roll.
WaitingForMoveHasMoves ==
    \A i \in 1..Len(states) :
        states[i].type = "WaitingForMove" =>
            /\ Len(states[i].available_moves) > 0
            /\ states[i].available_moves
                  = find_available_moves(rules, BoardOf(states[i]),
                                         get_turn_player(states[i]),
                                         states[i].roll)

\* The game waits for a move and a capture is among the available moves.
WaitingToCapture ==
    /\ is_waiting_for_move
    /\ \E move \in Range(get_current_state.available_moves) : is_capture(move)

\* The moves of the reference rule for a roll v > 0: the scoring move from
\* P[L - v], and for each i in -1..L-v-1 whose source exists a move to
\* P[i + v] unless that tile is blocked.
ReferenceMoves(settings, pieces, player, v) ==
    LET owner == player.player
        shape == RulesShape(settings)
        P == PathGet(RulesPaths(settings), owner)
        L == Len(P)
        at(i) == BoardGet(shape, pieces, P[i + 1])
        own(i) == /\ at(i) # None
                  /\ at(i).owner = owner
                  /\ at(i).path_index = i
        source_exists(i) == IF i = -1 THEN player.piece_count > 0 ELSE own(i)
        blocked(j) ==
            /\ at(j) # None
            /\ \/ at(j).owner = owner
               \/ settings.safe_rosettes /\ P[j + 1] \in shape.rosettes
        scoring ==
            IF v <= L /\ own(L - v)
            THEN {[player |-> owner, source |-> P[L - v + 1],
                   source_piece |-> at(L - v), dest |-> None,
                   dest_piece |-> None, captured_piece |-> None]}
            ELSE {}
        moving ==
            {[player |-> owner,
              source |-> IF i = -1 THEN None ELSE P[i + 1],
              source_piece |-> IF i = -1 THEN None ELSE at(i),
              dest |-> P[i + v + 1],
              dest_piece |-> [owner |-> owner, path_index |-> i + v],
              captured_piece |-> at(i + v)] :
                i \in {k \in (-1)..(L - v - 1) :
                          source_exists(k) /\ ~blocked(k + v)}}
    IN  scoring \cup moving

\* C7. Move generation matches the reference rule: the available moves of
\* a Rolled state, which find_available_moves made from the board, the turn
\* player and the roll, are without repetition the moves of the reference
\* rule when the roll is above 0 and none when it is 0, and no move both
\* introduces and scores.
MoveGenerationReference ==
    \A i \in 1..Len(states) :
        states[i].type = "Rolled" =>
            LET moves == states[i].available_moves
                v == states[i].roll.value
            IN  /\ v = 0 => moves = <<>>
                /\ v > 0 =>
                      /\ Range(moves)
                            = ReferenceMoves(rules, BoardOf(states[i]),
                                             get_turn_player(states[i]), v)
                      /\ Cardinality(Range(moves)) = Len(moves)
                /\ \A move \in Range(moves) :
                      ~(move.source = None /\ move.dest = None)

\* A roll gave the player the choice of scoring a piece or introducing one.
RolledScoreOrIntroduce ==
    /\ states[1].type = "Rolled"
    /\ Len(states[1].available_moves) = 2
    /\ \E move \in Range(states[1].available_moves) : move.dest = None
    /\ \E move \in Range(states[1].available_moves) : move.source = None

\* The Finkel opening with the name of the tile left open: the game starts
\* with an empty board, both reserves at starting_piece_count and Light to
\* roll; when Light rolls 4 the only available move introduces a piece to
\* the tile at Light-path index 3, a rosette named tile_name; applying it
\* yields a WaitingForRoll state whose turn is still Light.
FinkelOpeningOn(tile_name) ==
    (whole /\ rules = create_finkel) =>
        /\ states[1] = WaitingForRollGameState(
                           1, PlayerState(LIGHT, rules.starting_piece_count, 0),
                           PlayerState(DARK, rules.starting_piece_count, 0), LIGHT)
        /\ BoardOf(states[1]) = NewPieces(StandardBoardShape)
        /\ (Len(states) >= 3 /\ states[2].roll.value = 4) =>
              LET moves == states[2].available_moves
              IN  /\ moves = find_available_moves(rules, BoardOf(states[1]),
                                                  get_turn_player(states[1]),
                                                  states[2].roll)
                  /\ Len(moves) = 1
                  /\ is_introducing_piece(moves[1])
                  /\ moves[1].dest_piece = Piece(LIGHT, 3)
                  /\ moves[1].dest = BellPathPair.light[3 + 1]
                  /\ is_rosette(StandardBoardShape, moves[1].dest)
                  /\ TileRepr(moves[1].dest) = tile_name
                  /\ states[3].type = "WaitingForMove"
                  /\ states[3].available_moves = moves
        /\ (Len(states) >= 5 /\ states[2].roll.value = 4) =>
              /\ states[4].type = "Moved"
              /\ states[4].move = states[2].available_moves[1]
              /\ states[5].type = "WaitingForRoll"
              /\ states[5].turn = LIGHT
              /\ BoardGet(StandardBoardShape, BoardOf(states[5]),
                          states[4].move.dest) = Piece(LIGHT, 3)

\* C9, amended. Finkel opening: in the starting state, when Light rolls 4,
\* find_available_moves returns exactly one move, the introduction of a
\* piece to the tile at Light-path index 3, which is the rosette tile A1
\* under the Bell paths; applying it yields a WaitingForRoll state whose
\* turn is still Light.
FinkelOpening == FinkelOpeningOn("A1")

\* C9 as the specification states it, with the rosette named A4.
FinkelOpeningA4 == FinkelOpeningOn("A4")

\* Light rolled 4 in the starting state of the Finkel rules and made the
\* move.
FinkelOpeningPlayed ==
    /\ whole
    /\ rules = create_finkel
    /\ Len(states) >= 5
    /\ states[2].roll.value = 4
    /\ states[4].type = "Moved"

\* C10. The history is append-only and its states are never mutated: a
\* successful roll_dice or make_move appends exactly two states, an action
\* state (Rolled or Moved) and the resulting state; the list before the call
\* is a prefix of the list after it, and every earlier state keeps its
\* board, reserves, scores and turn; the last state is the current state.
HistoryAppendOnly ==
    [][(whole /\ states' # states) =>
          LET count == Len(states)
              action == states'[count + 1]
              result == states'[count + 2]
          IN  /\ Len(states') = count + 2
              /\ \A i \in 1..count :
                    /\ states'[i] = states[i]
                    /\ boards'[states'[i].board] = boards[states[i].board]
              /\ action.type = IF is_waiting_for_roll THEN "Rolled" ELSE "Moved"
              /\ action.turn = get_current_state.turn
              /\ boards'[action.board] = BoardOf(get_current_state)
              /\ result.type \in {"WaitingForRoll", "WaitingForMove", "Win"}
              /\ get_current_state' = result]_vars

\* Two moves were made in a game whose whole history is kept: the board of
\* the first state is empty and the last board holds a piece.
HistoryOfTwoMoves ==
    /\ whole
    /\ Len(states) >= 9
    /\ Cardinality({i \in 1..Len(states) : states[i].type = "Moved"}) >= 2
    /\ BoardOf(states[1]) = NewPieces(RulesShape(rules))
    /\ BoardOf(get_current_state) # NewPieces(RulesShape(rules))

\* C11. A call in the wrong state is an error that changes nothing: a call
\* that raises leaves the list of states and the boards as they were; a
\* call that does not raise adds states, roll_dice (which returns the Roll)
\* only when the game waits for a roll and its first added state is Rolled,
\* make_move only when the game waits for a move and its first added state
\* is Moved; once the current state is Win every call raises, so Win stays
\* the last state.
WrongStateCallsFail ==
    [][/\ raised' # None => (states' = states /\ boards' = boards)
       /\ raised' = None => states' # states
       /\ states' # states =>
             LET action == states'[Len(states') - 1]
             IN  IF returned' # None
                 THEN is_waiting_for_roll /\ action.type = "Rolled"
                 ELSE is_waiting_for_move /\ action.type = "Moved"
       /\ is_finished =>
             /\ raised' # None
             /\ states' = states
             /\ is_finished']_vars

\* A call was made on a finished game, and raised.
CalledAfterWin ==
    /\ is_finished
    /\ raised = RuntimeError

\* C12. A bad roll value is rejected and appends nothing: in a
\* WaitingForRoll state every call of roll_dice that adds states returns a
\* Roll whose value is within 0..max_roll, and that Roll is the roll of the
\* Rolled state it adds.
BadRollRejected ==
    [][(is_waiting_for_roll /\ states' # states) =>
          /\ returned' # None
          /\ returned'.value \in 0..get_max_roll_value(rules)
          /\ states'[Len(states') - 1].roll = returned']_vars

\* C13. make_move with a Piece or a Tile disambiguates against the
\* available moves: in every WaitingForMove state, for every piece (tile)
\* that is the source piece (source tile) of an available move,
\* make_move(piece) (make_move(tile)) applies exactly that move, whatever
\* other moves are in the list; when no available move matches, it fails
\* and adds no state.
MakeMoveDisambiguates ==
    is_waiting_for_move =>
        LET moves == Range(get_current_state.available_moves)
            made(move) == make_move(rules, boards, states, move,
                                    NewBoardId(boards))
            applies(move, matching) ==
                IF matching = {}
                THEN made(move).raised # None /\ made(move).states = <<>>
                ELSE /\ made(move).raised = None
                     /\ made(move).states[1].type = "Moved"
                     /\ made(move).states[1].move \in matching
        IN  /\ \A piece \in Placements(rules) :
                  applies(piece, {move \in moves : move.source_piece = piece})
            /\ \A tile \in RulesShape(rules).tiles :
                  applies(tile, {move \in moves : move.source = tile})

\* The boards of the states of a list are after a step what they were.
BoardsKept(list) ==
    \A i \in 1..Len(list) : boards'[list[i].board] = boards[list[i].board]

\* C14. Game copies are independent snapshots: right after c = game.copy()
\* the two games have equal histories, and a roll_dice or make_move on c
\* leaves the history of the game, the boards of its states and so its
\* current board and player states as they were, and the other way round.
CopiesIndependent ==
    [][/\ (copy_states = <<>> /\ copy_states' # <<>>) =>
             /\ copy_states' = states
             /\ states' = states
             /\ boards' = boards
       /\ (copy_states # <<>> /\ copy_states' # copy_states) =>
             /\ states' = states
             /\ BoardsKept(states)
             /\ BoardsKept(copy_states)
       /\ (copy_states # <<>> /\ states' # states) =>
             /\ copy_states' = copy_states
             /\ BoardsKept(copy_states)
             /\ BoardsKept(states)]_vars

\* A copy was made after the first roll; then a move and a roll were made
\* in the game, and a move and another roll in the copy.
CopyAndGamePlayedOn ==
    /\ Len(states) >= 7
    /\ Len(copy_states) >= 7
    /\ SubSeq(states, 1, 3) = SubSeq(copy_states, 1, 3)
    /\ states[4].type = "Moved"
    /\ copy_states[4].type = "Moved"
    /\ states[5].board # copy_states[5].board
    /\ states[6].roll # copy_states[6].roll

\* C15. A game driven by random play never gets stuck or raises: in every
\* reachable state exactly one of is_waiting_for_roll, is_waiting_for_move
\* and is_finished holds; get_turn succeeds when the game is not finished;
\* roll_dice succeeds with every value of the dice in the first case; in
\* the second there are available moves and make_move accepts each of
\* them; get_winner succeeds in the third.
RandomPlayNeverStuck ==
    /\ \/ is_waiting_for_roll /\ ~is_waiting_for_move /\ ~is_finished
       \/ ~is_waiting_for_roll /\ is_waiting_for_move /\ ~is_finished
       \/ ~is_waiting_for_roll /\ ~is_waiting_for_move /\ is_finished
    /\ ~is_finished => get_turn(states) \in PlayerTypes
    /\ is_waiting_for_roll =>
          \A value \in 0..get_max_roll_value(rules) :
              LET rolled == roll_dice(rules, boards, states, IntValue(value))
              IN  /\ rolled.raised = None
                  /\ rolled.returned = Roll(value)
                  /\ Len(rolled.states) = 2
    /\ is_waiting_for_move =>
          /\ Len(get_current_state.available_moves) > 0
          /\ \A move \in Range(get_current_state.available_moves) :
                LET made == make_move(rules, boards, states, move,
                                      NewBoardId(boards))
                IN  made.raised = None /\ Len(made.states) = 2
    /\ is_finished => get_winner(states) \in PlayerTypes

\* A game of the Masters paths was played to its end.
MastersGameFinished ==
    /\ is_finished
    /\ rules.paths = "Masters"
    /\ get_winner(states) = get_current_state.winner

\* The state that SpecEncode encodes, and the key it was given.
EncodedState == states[1]

LightToMoveEncoded ==
    /\ EncodedState.turn = LIGHT
    /\ returned # None

\* What a key holds in each of its fields.
KeyRightLane(key) == key % 2^6

KeyCenterIndex(key) == (key \div 2^6) % 2^13

KeyLeftLane(key) == (key \div 2^19) % 2^6

KeyDarkReserve(key) == (key \div 2^25) % 2^3

KeyLightReserve(key) == (key \div 2^28) % 2^3

\* The row index of the cell of a side lane that bit i stands for.
SideLaneRow(i) == IF i < 4 THEN i ELSE i + 2

\* Whose piece stands on the cell (ix, iy) of the encoded board, or None.
OccupantOf(ix, iy) ==
    LET piece == BoardOf(EncodedState)[calc_tile_index(RulesShape(rules), ix, iy)]
    IN  IF piece = None THEN None ELSE [owner |-> piece.owner]

\* The same read from a key alone: the outer columns belong to Light (ix 0)
\* and to Dark (ix 2), the rows 4 and 5 of the outer columns are no tiles,
\* and the center index is the place of the centre column's pattern in the
\* list of patterns, two bits a cell.
OccupantInKey(key, ix, iy) ==
    IF ix = 1
    THEN LET pattern == MiddleLaneStates[KeyCenterIndex(key) + 1]
             occupant == (pattern \div 4^iy) % 4
         IN  IF occupant = 0 THEN None
             ELSE [owner |-> IF occupant = 1 THEN DARK ELSE LIGHT]
    ELSE IF iy \in {4, 5} THEN None
    ELSE LET lane == IF ix = 0 THEN KeyLeftLane(key) ELSE KeyRightLane(key)
             i == IF iy < 4 THEN iy ELSE iy - 2
         IN  IF (lane \div 2^i) % 2 = 0 THEN None
             ELSE [owner |-> IF ix = 0 THEN LIGHT ELSE DARK]

\* C16. Encoder injectivity: two distinct legal Light-to-move states are
\* given distinct keys. Every state is read back from its key alone, the
\* occupancy of each cell and both reserves: so two states with the same
\* key have the same occupancy in every cell and the same reserves.
EncoderInjective ==
    LightToMoveEncoded =>
        /\ returned.int \div 2^30 < 2
        /\ \A ix \in 0..2, iy \in 0..7 :
              OccupantInKey(returned.int, ix, iy) = OccupantOf(ix, iy)
        /\ KeyDarkReserve(returned.int) = EncodedState.dark_player.piece_count
        /\ KeyLightReserve(returned.int) = EncodedState.light_player.piece_count

\* A state with a light and a dark piece in the centre column was encoded.
BothInCenterEncoded ==
    /\ LightToMoveEncoded
    /\ \E iy, jy \in 0..7 :
          /\ OccupantOf(1, iy) = [owner |-> LIGHT]
          /\ OccupantOf(1, jy) = [owner |-> DARK]

\* The bits of the side lane of the outer column ix: bit i for a piece on
\* the row SideLaneRow(i).
SideLaneBits(ix) ==
    LET bit(i) == IF OccupantOf(ix, SideLaneRow(i)) # None THEN 2^i ELSE 0
    IN  bit(0) + bit(1) + bit(2) + bit(3) + bit(4) + bit(5)

\* C17. Key layout: the key of a legal Light-to-move state is right_lane +
\* 2^6 * center_index + 2^19 * left_lane + 2^25 * dark_reserve + 2^28 *
\* light_reserve, bit i of a side lane is set iff a piece stands on that
\* outer column at the row i (i < 4) or i + 2 (i >= 4), the fields do not
\* overlap (side lanes < 2^6, center index < 2^13, reserves < 2^3) and the
\* key is below 2^31.
KeyLayout ==
    LightToMoveEncoded =>
        LET left_lane == SideLaneBits(0)
            right_lane == SideLaneBits(2)
            center_index ==
                encode_middle_lane(RulesShape(rules), BoardOf(EncodedState)).int
            dark_reserve == EncodedState.dark_player.piece_count
            light_reserve == EncodedState.light_player.piece_count
        IN  /\ returned.int = right_lane + 2^6 * center_index + 2^19 * left_lane
                              + 2^25 * dark_reserve + 2^28 * light_reserve
            /\ left_lane < 2^6
            /\ right_lane < 2^6
            /\ center_index >= 0
            /\ center_index < 2^13
            /\ dark_reserve \in 0..(2^3 - 1)
            /\ light_reserve \in 0..(2^3 - 1)
            /\ returned.int >= 0
            /\ returned.int \div 2^30 < 2

\* A state with pieces on the last rows of both outer columns was encoded.
OuterColumnEndsEncoded ==
    /\ LightToMoveEncoded
    /\ OccupantOf(0, 7) # None
    /\ OccupantOf(2, 6) # None
    /\ KeyLeftLane(returned.int) = 2^5
    /\ KeyRightLane(returned.int) = 2^4

\* The largest index of the centre-lane table of the encoder.
LargestCenterIndex ==
    max_compressed(generate_middle_lane_compression, MiddleLaneStates)

\* The largest compressed index is below 2^13 and not below 2^12, and the
\* constructor raises nothing.
CenterLaneFits ==
    /\ LargestCenterIndex < 2^13
    /\ LargestCenterIndex >= 2^12
    /\ SimpleGameStateEncoding = None

\* The piece counts add_middle_lane_states is started with to get other
\* compressed domains than the encoder's.
OtherPieceCounts == {0, 3, 7}

\* For each of these domains, the constructor raises RuntimeError when the
\* largest index does not need exactly 13 bits.
OtherWidthsRejected ==
    \A light_pieces, dark_pieces \in OtherPieceCounts :
        \A list \in {add_middle_lane_states(0, light_pieces, dark_pieces, 0)} :
            \A table \in {Compression(list)} :
                LET largest == max_compressed(table, list)
                IN  (largest < 2^12 \/ largest >= 2^13) =>
                        encoding_init(table, list) = RuntimeError

\* C18. Center-lane bound: the largest compressed center-lane index is
\* strictly less than 2^13 and not less than 2^12, and constructing the
\* encoder fails with an error whenever the compressed domain does not need
\* exactly 13 bits; the encoder of the program is constructed without one.
CenterLaneBound ==
    /\ CenterLaneFits
    /\ OtherWidthsRejected
    /\ raised # RuntimeError
    /\ returned # None => KeyCenterIndex(returned.int) <= LargestCenterIndex

\* The encoder was constructed and gave a key whose center index needs all
\* of the 13 bits.
WideCenterIndexEncoded ==
    /\ LightToMoveEncoded
    /\ KeyCenterIndex(returned.int) >= 2^12

\* The starting position of a game of the encoded settings was encoded:
\* the board is empty, both reserves hold every piece, Light is to move.
StartEncoded(settings) ==
    /\ rules = settings
    /\ returned # None
    /\ EncodedState = generate_initial_game_state(settings, 1)
    /\ BoardOf(EncodedState) = NewPieces(RulesShape(settings))

\* C20, as amended. The key of the starting position is 603979776 under
\* Finkel with 2 starting pieces, the rules of the table the test reads;
\* under Finkel with 7 starting pieces it is 2113929216, which is
\* 7 * 2^25 + 7 * 2^28.
FinkelStartKey ==
    /\ StartEncoded(with_starting_piece_count(create_finkel, 2)) =>
           returned.int = 603979776
    /\ StartEncoded(create_finkel) =>
           /\ returned.int = 2113929216
           /\ returned.int = 7 * 2^25 + 7 * 2^28

\* C20. Under Finkel with 7 starting pieces, the key that encode_game_state
\* gives to the starting position (empty board, Light reserve 7, Dark
\* reserve 7, Light to move) is 603979776.
FinkelSevenStartKey ==
    StartEncoded(create_finkel) => returned.int = 603979776

\* The starting position of Finkel with 7 pieces was encoded.
FinkelSevenStartEncoded ==
    /\ StartEncoded(create_finkel)
    /\ EncodedState.light_player.piece_count = 7
    /\ EncodedState.dark_player.piece_count = 7
    /\ EncodedState.turn = LIGHT

\* C19. Keys are monotonic under the enumeration order: whenever the
\* enumerator produces state A before state B, the key of A is smaller than
\* the key of B. The consumer takes the states in the order they were
\* produced, so each key it computes is larger than the one before.
KeysAscending ==
    [][(consumed_count' > consumed_count /\ returned # None) =>
           returned'.int > returned.int]_vars

\* The lines of the states handed to the consumer so far, in the order they
\* were handed: those written to the files, those in game_buffer and those
\* of the items on my_queue.
RECURSIVE FileLines(_)
FileLines(name) ==
    IF name \notin DOMAIN files THEN <<>> ELSE files[name] \o FileLines(name + 1)

RECURSIVE QueueLines(_)
QueueLines(queue) ==
    IF queue = <<>> THEN <<>>
    ELSE IF Head(queue) = None THEN QueueLines(Tail(queue))
    ELSE <<Line(StateData(boards, Head(queue)),
                encode_board(RulesShape(create_finkel),
                             boards[Head(queue).board]).int)>>
         \o QueueLines(Tail(queue))

HandedLines == FileLines(1) \o game_buffer \o QueueLines(my_queue)

\* The records of my_queue with the cells of their boards.
QueueData ==
    [i \in DOMAIN my_queue |->
        IF my_queue[i] = None THEN None ELSE StateData(boards, my_queue[i])]

\* The state that the game of produce_states is in, as an item of my_queue.
GameItem ==
    [board |-> boards[1],
     light_player_score |-> states[1].light_player.score,
     dark_player_score |-> states[1].dark_player.score]

\* The game of produce_states is in a legal state: Light's pieces stand on
\* tiles of Light's path and Dark's on tiles of Dark's path, and each score
\* is starting_piece_count less the reserve and the pieces on the board,
\* and not negative.
LegalGame ==
    /\ \A tile \in StandardBoardShape.tiles :
          \E piece \in {BoardGet(StandardBoardShape, boards[1], tile)} :
             piece # None => tile \in Range(PathGet(BellPathPair, piece.owner))
    /\ \A index \in DOMAIN boards[1] :
          boards[1][index] # None =>
             \E tile \in StandardBoardShape.tiles :
                calc_tile_index(StandardBoardShape, TileIx(tile), TileIy(tile)) = index
    /\ \A player \in PlayerTypes :
          /\ get_player(states[1], player).score >= 0
          /\ get_player(states[1], player).score =
                ProducePieceCount - get_player(states[1], player).piece_count
                    - count_pieces(boards[1], player)

\* The lines of the legal states with the given reserves whose Dark score
\* is below the limit.
LegalLines(pair, limit) ==
    {Line([board |-> board,
           light_player_score |->
               ProducePieceCount - pair[1] - count_pieces(board, LIGHT),
           dark_player_score |->
               ProducePieceCount - pair[2] - count_pieces(board, DARK)],
          encode_board(StandardBoardShape, board).int) :
        board \in
          {PlacedPieces(create_finkel, NewPieces(StandardBoardShape), placed) :
             placed \in
               {set \in PlacementSets(create_finkel, 2 * MaxScore) :
                  /\ Cardinality({piece \in set : piece.owner = LIGHT})
                        <= ProducePieceCount - pair[1]
                  /\ Cardinality({piece \in set : piece.owner = DARK})
                        <= ProducePieceCount - pair[2]
                  /\ ProducePieceCount - pair[2]
                        - Cardinality({piece \in set : piece.owner = DARK})
                        < limit}}}

AllLegalLines(limit) == UNION {LegalLines(WalkedPairs[i], limit) : i \in DOMAIN WalkedPairs}

NoLineTwice(lines) == Cardinality(Range(lines)) = Len(lines)

\* C21 as claimed. The enumerator produces every legal state exactly once:
\* whenever a walk reaches the end of the board the game is in a legal state
\* and that state is put on my_queue, and when the producer is done each
\* legal state of the pairs it walked has been handed to the consumer one
\* time, and nothing else has.
EveryLegalStateOnce ==
    /\ [][produced' > produced =>
             LegalGame' /\ QueueData' = put(QueueData, GameItem')]_vars
    /\ [](pc # None /\ pc.producer = "done" /\ raised = None =>
             /\ NoLineTwice(HandedLines)
             /\ Range(HandedLines) = AllLegalLines(ProducePieceCount + 1))

\* C21. The enumerator produces every legal state in which Dark has not
\* scored all 7 pieces exactly once: whenever a walk reaches the end of the
\* board the game is in a legal state, and that state is put on my_queue if
\* Dark's score is below 7 and nothing is put otherwise; when the producer
\* is done each legal state of the pairs it walked has been handed to the
\* consumer one time, and nothing else has.
EveryLegalStateOnceUnlessDarkWon ==
    /\ [][produced' > produced =>
             /\ LegalGame'
             /\ QueueData' = IF states'[1].dark_player.score < LoopStartingPieceCount
                            THEN put(QueueData, GameItem')
                            ELSE QueueData]_vars
    /\ [](pc # None /\ pc.producer = "done" /\ raised = None =>
             /\ NoLineTwice(HandedLines)
             /\ Range(HandedLines) = AllLegalLines(LoopStartingPieceCount))

\* The producer is done with the walks, in which it handed on states with
\* pieces of both players on the board.
AllWalksHanded ==
    /\ pc # None
    /\ pc.producer = "done"
    /\ raised = None
    /\ Len(HandedLines) > 200

\* C22. Enumerator termination: the producer puts None on my_queue once,
\* after its last state; when the consumer has taken it and is done, both
\* threads are done without an exception, nothing is left on my_queue or in
\* game_buffer unwritten, and every record the consumer took is written to
\* exactly one file.
ConsumerFlushesAndExits ==
    pc # None /\ pc.consumer = "done" =>
        /\ pc.producer = "done"
        /\ raised = None
        /\ my_queue = <<>>
        /\ Len(FileLines(1)) = consumed_count
        /\ NoLineTwice(FileLines(1))

\* The lines of what a walk reaches the end of the board with, as far as
\* the model follows it; no line where dark_won holds and nothing is put.
ReachedLines ==
    [pair \in Range(WalkedPairs) \cup Range(DarkWonPairs) |->
        [index \in 1..(IF Len(WalkOf[pair]) < MaxReached
                       THEN Len(WalkOf[pair]) ELSE MaxReached) |->
            IF WalkOf[pair][index].dark_won THEN ""
            ELSE Line(WalkOf[pair][index],
                      encode_board(StandardBoardShape,
                                   WalkOf[pair][index].board).int)]]

RECURSIVE PutLines(_, _)
PutLines(lines, count) ==
    IF count = 0 THEN <<>>
    ELSE PutLines(lines, count - 1)
         \o (IF lines[count] = "" THEN <<>> ELSE <<lines[count]>>)

RECURSIVE WalksLines(_, _)
WalksLines(pairs, count) ==
    IF count = 0 THEN <<>>
    ELSE WalksLines(pairs, count - 1)
         \o PutLines(ReachedLines[pairs[count]], Len(ReachedLines[pairs[count]]))

\* The lines of the items that the producer has put on my_queue so far, in
\* the order it put them.
ProducedLines ==
    IF walks = DarkWonPairs
    THEN PutLines(ReachedLines[Head(walks)], produced)
    ELSE WalksLines(WalkedPairs, Len(WalkedPairs) - Len(walks))
         \o (IF walks = <<>> THEN <<>>
             ELSE PutLines(ReachedLines[Head(walks)], produced))

\* C23. Queue ordering: the records that the consumer has taken, in the
\* order it took them, followed by the records on my_queue are the records
\* that the producer has put, in the order it put them, so none is lost,
\* doubled or out of order; None is on my_queue only in the last place, and
\* once the consumer has taken it the consumer takes and processes nothing
\* more.
FirstInFirstOut ==
    /\ [](pc # None /\ raised = None =>
             /\ Len(FileLines(1)) + Len(game_buffer) = consumed_count
             /\ FileLines(1) \o game_buffer \o QueueLines(my_queue) = ProducedLines
             /\ \A i \in 1..(Len(my_queue) - 1) : my_queue[i] # None)
    /\ [][pc # None /\ pc.consumer = "done" =>
             UNCHANGED <<consumed_count, game_buffer, returned>>
             /\ Len(my_queue') >= Len(my_queue)]_vars

\* The consumer has taken records while two more that were put after them
\* wait on my_queue.
ConsumerBehindProducer ==
    /\ consumed_count > BUFFER_SIZE
    /\ Len(my_queue) = MaxQueue
    /\ my_queue[MaxQueue] # None

\* C24. Back-pressure: my_queue has a capacity, a maxsize above 0 at which
\* Queue.put blocks, and in every reachable state it holds at most that
\* many items.
BackPressure ==
    pc # None => 0 < my_queue_maxsize /\ Len(my_queue) <= my_queue_maxsize

----------------------------------------------------------------------------
\* Properties of the look-up table.

\* The first key and the number of keys of a map of the table, counted in
\* keys from the start of the key slab of the file.
SlabStart(self, map_index) == sum(SubSeq(self._map_sizes, 1, map_index))

SlabSize(self, map_index) == self._map_sizes[map_index + 1]

\* The key and the value at a position, from 0, of a map.
StoredKey(self, map_index, position) ==
    int_from_bytes(SubSeq(self._keys,
                          4 * (SlabStart(self, map_index) + position) + 1,
                          4 * (SlabStart(self, map_index) + position) + 4))

StoredValueAt(self, map_index, position) ==
    int_from_bytes(SubSeq(self._values,
                          2 * (SlabStart(self, map_index) + position) + 1,
                          2 * (SlabStart(self, map_index) + position) + 2))

\* The positions of a map.
Positions(self, map_index) == 0..(SlabSize(self, map_index) - 1)

\* The table holds every key and value that its map sizes say, and the
\* keys of each map ascend.
WellFormed(self) ==
    /\ Len(self._keys) = 4 * sum(self._map_sizes)
    /\ Len(self._values) = 2 * sum(self._map_sizes)
    /\ \A map_index \in 0..(Len(self._map_sizes) - 1) :
          \A p, q \in Positions(self, map_index) :
              p < q => StoredKey(self, map_index, p) < StoredKey(self, map_index, q)

\* C25. Lookup hit: in a well-formed table, lookup(m, k) of a key k stored
\* in map m returns the value at the position of k in map m's values; the
\* search reads keys of map m's slab only, and no more of them than the map
\* has.
LookupHit ==
    (looked_up # None /\ WellFormed(lut)) =>
        \A position \in Positions(lut, looked_up.map_index) :
            StoredKey(lut, looked_up.map_index, position) = looked_up.key =>
                /\ returned = IntValue(StoredValueAt(lut, looked_up.map_index, position))
                /\ \A i \in 1..Len(looked_up.examined) :
                      /\ looked_up.examined[i] >= 4 * SlabStart(lut, looked_up.map_index)
                      /\ looked_up.examined[i] < 4 * (SlabStart(lut, looked_up.map_index)
                                                      + SlabSize(lut, looked_up.map_index))
                /\ Len(looked_up.examined) <= SlabSize(lut, looked_up.map_index)

\* C26. Lookup miss: in a well-formed table, lookup(m, k) of a key k that
\* map m does not store, be it 0 or a key of another map, raises KeyError
\* and returns nothing.
LookupMiss ==
    (looked_up # None /\ WellFormed(lut)) =>
        ((\A position \in Positions(lut, looked_up.map_index) :
             StoredKey(lut, looked_up.map_index, position) # looked_up.key)
         => raised = KeyError /\ returned = None)

\* C27. Load rejects malformed files: read returns a Lut for a whole file
\* with the magic number RGU and the version 0 only; for a file with another
\* magic number or version, or cut short, it raises an exception.
LoadRejectsMalformed ==
    (binary_contents \notin WholeFiles /\ (lut # None \/ raised # None))
        => (lut = None /\ raised # None)

\* The call of keys_as_numpy or values_as_numpy for a map of a well-formed
\* table, or for a map index that the table has no map of.
ViewedMap ==
    /\ viewed # None
    /\ WellFormed(lut)
    /\ viewed.name \in {"keys_as_numpy", "values_as_numpy"}
    /\ viewed.args # <<>>

\* C32. Per-map access: keys_as_numpy(m) and values_as_numpy(m) of a
\* well-formed table give size_of_maps[m] entries for a map m of the table
\* and raise IndexError for any other m; len(lut) is the number of entries
\* of all maps.
PerMapAccess ==
    /\ ViewedMap =>
           IF viewed.args[1] < Len(lut._map_sizes)
           THEN /\ "array" \in DOMAIN viewed.result
                /\ Len(viewed.result.array) = lut._map_sizes[viewed.args[1] + 1]
           ELSE viewed.result = IndexError
    /\ (viewed # None /\ WellFormed(lut) /\ viewed.name = "len") =>
           viewed.result = IntValue(sum(lut._map_sizes))

----------------------------------------------------------------------------
\* Properties of the agent.

\* The moves that the game waits for one of.
AvailableMoves == get_current_state.available_moves

\* play has returned or raised.
Played == raised # None \/ evaluated # <<>>

\* The value that the table holds for a key, or None.
TableValue(key) ==
    LET found == {position \in Positions(lut, 0) : StoredKey(lut, 0, position) = key}
    IN  IF found = {} THEN None
        ELSE IntValue(StoredValueAt(lut, 0, CHOOSE position \in found : TRUE))

\* The state of the game after a move, and the heap with its board.
StateAfter(move) ==
    LET applied == apply_move(rules, boards, get_current_state, move, NewBoardId(boards))
    IN  [heap |-> applied.heap, state |-> applied.states[Len(applied.states)]]

\* The key of the state after a move that leaves the game unfinished: of
\* the state itself when Light is to move, of the inverted state when Dark
\* is.
KeyAfter(move) ==
    LET after == StateAfter(move)
        inverse == copy_inverted(rules, after.heap, after.state, NewBoardId(after.heap))
    IN  IF after.state.turn = LIGHT
        THEN encode_game_state(rules, after.heap, after.state).int
        ELSE encode_game_state(rules, inverse.heap, inverse.state).int

\* The value of a move: MaxValue or 0 for a move that wins the game for
\* Light or for Dark, else the value of the table for the state after it,
\* taken from MaxValue when Dark is to move in it; None when the table does
\* not hold the state.
MoveValue(move) ==
    LET after == StateAfter(move).state
        value == TableValue(KeyAfter(move))
    IN  IF after.type = "Win"
        THEN IntValue(IF after.winner = LIGHT THEN MaxValue ELSE 0)
        ELSE IF value = None THEN None
        ELSE IntValue(IF after.turn = LIGHT THEN value.int ELSE MaxValue - value.int)

\* The moves that have a value.
Valued == {i \in 1..Len(AvailableMoves) : MoveValue(AvailableMoves[i]) # None}

\* C28. Agent choice: when Light is to move and every available move has
\* a value, play returns an available move of the highest value, the first
\* of them in the order of find_available_moves.
AgentChoice ==
    (Played /\ Valued = 1..Len(AvailableMoves)) =>
        /\ raised = None
        /\ \E i \in 1..Len(AvailableMoves) :
              /\ returned = AvailableMoves[i]
              /\ \A j \in 1..Len(AvailableMoves) :
                    /\ MoveValue(AvailableMoves[j]).int <= MoveValue(AvailableMoves[i]).int
                    /\ j < i => MoveValue(AvailableMoves[j]).int
                                < MoveValue(AvailableMoves[i]).int

\* C29. Agent inversion: the value that play gives a move after which the
\* game goes on is, when Dark is to move then, MaxValue less the value of
\* the table for the inverted state, and when Light is to move, the value of
\* the table for the state; and the state that it has encoded for the move
\* has Light to move.
AgentInversion ==
    \A i \in 1..Len(evaluated) :
        LET move == evaluated[i].move
            after == StateAfter(move).state
            inverse == copy_inverted(rules, StateAfter(move).heap, after,
                                     NewBoardId(StateAfter(move).heap))
        IN  after.type # "Win" =>
                /\ after.turn = DARK =>
                       evaluated[i].value =
                           MaxValue - TableValue(encode_game_state(
                                                     rules, inverse.heap,
                                                     inverse.state).int).int
                /\ after.turn = LIGHT =>
                       evaluated[i].value =
                           TableValue(encode_game_state(rules, StateAfter(move).heap,
                                                        after).int).int
                /\ evaluated[i].after.encoded.turn = LIGHT

\* play has valued a move after which Dark is to move and a move after
\* which Light is to move again.
ValuedBothTurns ==
    \E i, j \in 1..Len(evaluated) :
        /\ StateAfter(evaluated[i].move).state.type # "Win"
        /\ StateAfter(evaluated[j].move).state.type # "Win"
        /\ StateAfter(evaluated[i].move).state.turn = DARK
        /\ StateAfter(evaluated[j].move).state.turn = LIGHT
        /\ evaluated[i].value \notin {0, MaxValue}

\* C30. Agent fallback: play raises no KeyError; it returns an available
\* move that has a value when there is one, and the first available move
\* when the table holds the state after none.
AgentFallback ==
    Played =>
        /\ raised # KeyError
        /\ IF Valued = {}
           THEN returned = AvailableMoves[1]
           ELSE \E i \in Valued : returned = AvailableMoves[i]

----------------------------------------------------------------------------
\* Properties of the dice.

\* The calls so far of a dice of three coins on which 0 counts as the
\* highest roll.
ZeroAsMaxCalls ==
    IF dice # None /\ dice.class = "BinaryDice0AsMax" /\ dice._num_die = 3
    THEN Range(dice_calls) ELSE {}

\* C31. Zero-as-max dice with 3 coins: get_max_roll_value() is 4; roll(value)
\* returns the Roll of the value for the values 1..4 and raises ValueError for
\* 0 and for values above 4; roll() returns the Roll of the number of coins
\* that came up, and the Roll of 4 when none did.
ZeroAsMaxDice ==
    \A called \in ZeroAsMaxCalls :
        /\ called.call.name = "get_max_roll_value" => called.result = IntValue(4)
        /\ (called.call.name = "roll" /\ called.call.value # None) =>
               called.result = IF called.call.value.int \in 1..4
                               THEN Roll(called.call.value.int)
                               ELSE ValueError
        /\ (called.call.name = "roll" /\ called.call.value = None) =>
               /\ "value" \in DOMAIN called.result
               /\ called.result.value # 0
               /\ called.result.value =
                      IF CoinCount(called.call.coins) = 0 THEN 4
                      ELSE CoinCount(called.call.coins)

----------------------------------------------------------------------------
\* Properties of whole games

\* The path indices (-1 for the reserve) from which the player has a piece
\* to move by v onto a rosette tile that holds a piece of the opponent.
RosetteCaptures(settings, pieces, player, v) ==
    LET owner == player.player
        shape == RulesShape(settings)
        P == PathGet(RulesPaths(settings), owner)
        at(i) == BoardGet(shape, pieces, P[i + 1])
    IN  {k \in (-1)..(Len(P) - v - 1) :
            /\ IF k = -1 THEN player.piece_count > 0
               ELSE /\ at(k) # None
                    /\ at(k).owner = owner
                    /\ at(k).path_index = k
            /\ at(k + v) # None
            /\ at(k + v).owner # owner
            /\ is_rosette(shape, P[k + v + 1])}

\* C33. Safe rosettes: under settings with safe_rosettes no move of the
\* history captures a piece that stood on a rosette tile; under settings
\* without it, every capture of an opponent's piece on a rosette that the
\* roll allows is among the available moves.
SafeRosettes ==
    \A i \in 1..Len(states) :
        /\ (rules.safe_rosettes /\ states[i].type = "Moved") =>
              ~(/\ is_capture(states[i].move)
                /\ is_rosette(RulesShape(rules), states[i].move.dest))
        /\ (~rules.safe_rosettes /\ states[i].type = "Rolled"
                /\ states[i].roll.value > 0) =>
              \A k \in RosetteCaptures(rules, BoardOf(states[i]),
                                       get_turn_player(states[i]),
                                       states[i].roll.value) :
                  \E move \in Range(states[i].available_moves) :
                      /\ is_capture(move)
                      /\ move.dest_piece.path_index = k + states[i].roll.value
                      /\ is_rosette(RulesShape(rules), move.dest)

\* Under safe rosettes a roll would have carried a piece onto a rosette
\* that holds a piece of the opponent.
RolledOntoHeldRosette ==
    /\ rules.safe_rosettes
    /\ states[1].type = "Rolled"
    /\ states[1].roll.value > 0
    /\ RosetteCaptures(rules, BoardOf(states[1]), get_turn_player(states[1]),
                       states[1].roll.value) # {}

\* Without safe rosettes a piece on a rosette was captured.
CapturedOnRosette ==
    /\ ~rules.safe_rosettes
    /\ states[1].type = "Moved"
    /\ is_capture(states[1].move)
    /\ is_rosette(RulesShape(rules), states[1].move.dest)

----------------------------------------------------------------------------
\* Properties of the center-lane table

\* The occupant that a raw state gives to the cell index.
RawCell(raw, index) == (raw \div 4^index) % 4

\* The raw states of eight cells with occupants in {0,1,2}, at most 7 of
\* them dark and at most 7 light.
LegalPatterns ==
    {raw \in 0..65535 :
        /\ \A index \in 0..7 : RawCell(raw, index) \in 0..2
        /\ Cardinality({index \in 0..7 : RawCell(raw, index) = 1}) <= 7
        /\ Cardinality({index \in 0..7 : RawCell(raw, index) = 2}) <= 7}

\* The depth-first order with cell 0 outermost: at the first cell in which
\* two states differ the earlier state has the smaller occupant.
DfsBefore(a, b) ==
    \E index \in 0..7 :
        /\ RawCell(a, index) < RawCell(b, index)
        /\ \A outer \in 0..(index - 1) : RawCell(a, outer) = RawCell(b, outer)

\* The table gives the indices 0..N-1 to exactly the legal patterns, one to
\* one, in depth-first order.
TableBijective ==
    /\ Range(MiddleLaneStates) = LegalPatterns
    /\ \A k \in 1..(Len(MiddleLaneStates) - 1) :
          DfsBefore(MiddleLaneStates[k], MiddleLaneStates[k + 1])
    /\ \A k \in 1..Len(MiddleLaneStates) :
          middle_lane_compression_get(MiddleLaneStates[k]) = IntValue(k - 1)

\* Every raw state from first up to last that is no legal pattern reads as
\* the sentinel.
OthersKeepSentinel(first, last) ==
    \A raw \in first..last :
        raw \notin LegalPatterns => middle_lane_compression_get(raw) = IntValue(-1)

OthersBelowEndKeepSentinel == OthersKeepSentinel(0, 65534)

AllOthersKeepSentinel == OthersKeepSentinel(0, 65535)

\* The raw state of the center column of a board.
RECURSIVE ColumnState(_, _)
ColumnState(pieces, index) ==
    IF index = 8 THEN 0
    ELSE LET piece == pieces[calc_tile_index(StandardBoardShape, 1, index)]
         IN  (IF piece = None THEN 0 ELSE IF piece.owner = DARK THEN 1 ELSE 2)
             + 4 * ColumnState(pieces, index + 1)

\* What was read from the table is what the table holds, and a center
\* column is encoded to its index, or refused when it is no legal pattern.
TableUsed ==
    /\ (raised # None) =>
          /\ raised = ValueError
          /\ ColumnState(boards[1], 0) \notin LegalPatterns
    /\ (returned # None /\ "int" \in DOMAIN returned) =>
          /\ ColumnState(boards[1], 0) \in LegalPatterns
          /\ MiddleLaneStates[returned.int + 1] = ColumnState(boards[1], 0)
    /\ (returned # None /\ "state" \in DOMAIN returned) =>
          IF returned.state \in LegalPatterns
          THEN /\ "int" \in DOMAIN returned.compressed
               /\ MiddleLaneStates[returned.compressed.int + 1] = returned.state
          ELSE returned.compressed = IntValue(-1)

\* C34. Center-lane table: generate_middle_lane_compression gives the
\* indices 0..N-1, in depth-first order with cell 0 outermost and occupants
\* in the order empty, dark, light, to exactly the raw 16-bit patterns of
\* occupants in {0,1,2} with at most 7 dark and at most 7 light, one to
\* one; every other raw pattern reads as the sentinel, and encoding a
\* center column of such a pattern raises the illegal-board-state error.
CenterLaneTable ==
    /\ TableBijective
    /\ AllOthersKeepSentinel
    /\ TableUsed

\* The same for the raw patterns that the list has an entry for: all but
\* 0xFFFF, which is read only by ReadCompression.
CenterLaneTableBelowEnd ==
    /\ TableBijective
    /\ OthersBelowEndKeepSentinel
    /\ ~("state" \in DOMAIN returned /\ returned.state = 65535) => TableUsed

\* A column of eight dark pieces was refused.
FullColumnRefused ==
    /\ raised = ValueError
    /\ ColumnState(boards[1], 0) = 21845

----------------------------------------------------------------------------
\* Further properties of the enumerator

\* C35. Every board handed to the consumer satisfies the Board invariant:
\* each piece of the board of a record on my_queue has an owner whose
\* on-board Bell path holds the tile of the piece at the piece's
\* path_index.
HandedBoardsValid ==
    \A i \in 1..Len(my_queue) :
        my_queue[i] # None =>
            \A ix \in 0..(BOARD_WIDTH - 1), iy \in 0..(BOARD_HEIGHT - 1) :
                LET piece == boards[my_queue[i].board][
                                 calc_tile_index(StandardBoardShape, ix, iy)]
                IN  piece # None =>
                       LET path == PathGet(BellPathPair, piece.owner)
                       IN  /\ piece.path_index >= 0
                           /\ piece.path_index < Len(path)
                           /\ path[piece.path_index + 1] = Tile(ix + 1, iy + 1)

\* Each piece of a handed board stands on the tile that its owner's path
\* holds one place before the piece's path_index.
HandedBoardsOneAhead ==
    \A i \in 1..Len(my_queue) :
        my_queue[i] # None =>
            \A ix \in 0..(BOARD_WIDTH - 1), iy \in 0..(BOARD_HEIGHT - 1) :
                LET piece == boards[my_queue[i].board][
                                 calc_tile_index(StandardBoardShape, ix, iy)]
                IN  piece # None =>
                       LET path == PathGet(BellPathPair, piece.owner)
                       IN  /\ piece.path_index >= 1
                           /\ piece.path_index <= Len(path)
                           /\ path[piece.path_index] = Tile(ix + 1, iy + 1)

\* The number of records that a step takes from the head of my_queue.
Taken == IF Len(my_queue') < Len(my_queue) THEN 1 ELSE 0

\* C40. Queued records are snapshots: a record put on my_queue holds the
\* occupancy of the board and the two scores that the game has at that
\* moment; while it is queued no step of the producer or of the consumer
\* changes what it holds; and the line that the consumer makes of the
\* record it takes is the line of what the record held when it was put.
QueuedSnapshots ==
    [][/\ (Len(QueueData') > Len(QueueData)
              /\ QueueData'[Len(QueueData')] # None) =>
             QueueData'[Len(QueueData')] = GameItem'
       /\ \A i \in (1 + Taken)..Len(QueueData) :
             QueueData'[i - Taken] = QueueData[i]
       /\ consumed_count' > consumed_count =>
             (FileLines(1) \o game_buffer)'[consumed_count'] =
                 Line(QueueData[1],
                      encode_board(StandardBoardShape, QueueData[1].board).int)
      ]_vars

\* A record waits on my_queue while the producer has gone on to another
\* board, and the consumer has taken records before it.
QueuedBehindProducer ==
    /\ consumed_count > 0
    /\ my_queue # <<>>
    /\ my_queue[1] # None
    /\ boards[my_queue[1].board] # boards[1]

----------------------------------------------------------------------------
\* Further properties of the rules

\* 1 if the condition holds, else 0.
Count(condition) == IF condition THEN 1 ELSE 0

\* What a move did to the counters and to the opponent's pieces, given the
\* state it was made in and the state it led to.
MoveEffect(moved, after) ==
    LET move == moved.move
        mover == moved.turn
        opponent == get_other_player(mover)
        captures == move.captured_piece # None
        before_pieces == BoardOf(moved)
        after_pieces == BoardOf(after)
        dest_cell == calc_tile_index(RulesShape(rules), TileIx(move.dest),
                                     TileIy(move.dest))
    IN  /\ get_player(after, mover).piece_count
              = get_player(moved, mover).piece_count - Count(move.source = None)
        /\ get_player(after, mover).score
              = get_player(moved, mover).score + Count(move.dest = None)
        /\ get_player(after, opponent).piece_count
              = get_player(moved, opponent).piece_count + Count(captures)
        /\ get_player(after, opponent).score = get_player(moved, opponent).score
        /\ count_pieces(after_pieces, opponent)
              = count_pieces(before_pieces, opponent) - Count(captures)
        /\ captures =>
              /\ before_pieces[dest_cell] = move.captured_piece
              /\ move.captured_piece.owner = opponent
              /\ after_pieces[dest_cell].owner = mover
        /\ \A cell \in DOMAIN before_pieces :
              (after_pieces[cell] # before_pieces[cell]
               /\ before_pieces[cell] # None
               /\ before_pieces[cell].owner = opponent) =>
                  captures /\ cell = dest_cell

\* C36. Effect of a move on the counters: an introduction lowers the
\* mover's reserve by 1, a scoring move raises the mover's score by 1, a
\* capture raises the opponent's reserve by 1 and takes exactly the
\* captured piece of the opponent off the board, and nothing else changes
\* a reserve or a score; the opponent's score never changes.
MoveCounters ==
    \A i \in 1..(Len(states) - 1) :
        states[i].type = "Moved" => MoveEffect(states[i], states[i + 1])

\* A piece was captured while another piece of its owner stood on the
\* board.
CapturedOneOfTwo ==
    /\ Len(states) = 2
    /\ states[1].type = "Moved"
    /\ is_capture(states[1].move)
    /\ count_pieces(BoardOf(states[2]), get_other_player(states[1].turn)) = 1

\* The owners of the pieces in the column ix of the cells of a board.
ColumnOwners(pieces, ix) ==
    {pieces[calc_tile_index(StandardBoardShape, ix, iy)].owner :
        iy \in {y \in 0..(StandardBoardShape.height - 1) :
                   pieces[calc_tile_index(StandardBoardShape, ix, y)] # None}}

\* C37. Lane ownership under Finkel: on the board of every state the left
\* column holds only Light pieces and the right column only Dark pieces,
\* and no tile comes to hold two pieces: a move lands on an empty tile or
\* on the piece of the opponent that it captures.
LaneOwnership ==
    rules.paths = "Bell" =>
        \A i \in 1..Len(states) :
            /\ ColumnOwners(BoardOf(states[i]), 0) \subseteq {LIGHT}
            /\ ColumnOwners(BoardOf(states[i]), 2) \subseteq {DARK}
            /\ (states[i].type = "Moved" /\ states[i].move.dest # None) =>
                  LET on_dest == BoardGet(StandardBoardShape, BoardOf(states[i]),
                                          states[i].move.dest)
                  IN  /\ on_dest = states[i].move.captured_piece
                      /\ on_dest # None => on_dest.owner # states[i].move.player

\* Light has a piece in the left column, Dark one in the right column, and
\* the center column holds a piece of each.
AllLanesHeld ==
    /\ rules.paths = "Bell"
    /\ ColumnOwners(BoardOf(get_current_state), 0) = {LIGHT}
    /\ ColumnOwners(BoardOf(get_current_state), 2) = {DARK}
    /\ ColumnOwners(BoardOf(get_current_state), 1) = {LIGHT, DARK}

\* Two states have the same turn, board and player states.
SamePosition(before, after) ==
    /\ after.turn = before.turn
    /\ after.board = before.board
    /\ after.light_player = before.light_player
    /\ after.dark_player = before.dark_player

\* The grammar of a list of states that is kept whole.
ListGrammar ==
    whole =>
        /\ states[1].type = "WaitingForRoll"
        /\ \A i \in 1..Len(states) :
              /\ states[i].type = "Rolled" =>
                    /\ i > 1 /\ i < Len(states)
                    /\ states[i - 1].type = "WaitingForRoll"
                    /\ SamePosition(states[i - 1], states[i])
                    /\ states[i + 1].type \in {"WaitingForRoll", "WaitingForMove"}
              /\ states[i].type = "Moved" =>
                    /\ i > 1 /\ i < Len(states)
                    /\ states[i - 1].type = "WaitingForMove"
                    /\ SamePosition(states[i - 1], states[i])
                    /\ states[i].roll = states[i - 1].roll
                    /\ states[i + 1].type \in {"WaitingForRoll", "Win"}
              /\ states[i].type = "Win" => i = Len(states)

\* The grammar of the states that a call adds to the current state.
StepGrammar ==
    states' # states =>
        LET before == states[Len(states)]
            action == states'[Len(states') - 1]
            after == states'[Len(states')]
        IN  /\ before.type \in {"WaitingForRoll", "WaitingForMove"}
            /\ whole => states' = states \o <<action, after>>
            /\ action.type = IF before.type = "WaitingForRoll"
                             THEN "Rolled" ELSE "Moved"
            /\ action.turn = before.turn
            /\ boards'[action.board] = boards[before.board]
            /\ action.light_player = before.light_player
            /\ action.dark_player = before.dark_player
            /\ action.type = "Rolled" =>
                  after.type \in {"WaitingForRoll", "WaitingForMove"}
            /\ action.type = "Moved" =>
                  /\ action.roll = before.roll
                  /\ after.type \in {"WaitingForRoll", "Win"}

\* C38. History grammar: the first state is WaitingForRoll; every Rolled
\* state comes right after a WaitingForRoll state with the same turn, board
\* and player states and right before a WaitingForRoll or WaitingForMove
\* state; every Moved state comes right after a WaitingForMove state with
\* the same turn, roll, board and player states and right before a
\* WaitingForRoll or Win state; a Win state is the last state, and no
\* state is added after it.
HistoryGrammar ==
    /\ states[1].type = "WaitingForRoll"
    /\ []ListGrammar
    /\ [][StepGrammar]_vars

\* A move has won the game.
WonByMove ==
    /\ Len(states) = 2
    /\ states[1].type = "Moved"
    /\ states[2].type = "Win"

----------------------------------------------------------------------------
\* Further properties of the agent

\* C39. The agent does not change the game: when LutAgent.play(game) has
\* returned or failed, the list of states of the game and the cells of its
\* boards, and so its current state, board and player states, are what
\* they were before the call.
AgentLeavesGame ==
    [][(raised' # raised \/ returned' # returned \/ evaluated' # evaluated) =>
           /\ states' = states
           /\ boards' = boards]_vars

\* play failed at a move after it had tried another on a copy of the game.
FailedAfterCandidate ==
    /\ raised # None
    /\ Len(evaluated) >= 1
    /\ \E i \in 1..Len(evaluated) : ~evaluated[i].after.finished

====
